---- MODULE Spec2Model ----
(***************************************************************************)
(* Stage pipeline and project-state machine of interview-to-habr.          *)
(*                                                                         *)
(* The model follows src/core/state_manager.py (StateManager),             *)
(* src/stages/base.py (BaseStage.run, stage_key, update_progress), the ten *)
(* stage variants src/stages/s01..s10 and src/pipeline.py (run_stage,      *)
(* run_all).  Python dicts are functions whose DOMAIN grows when a key is  *)
(* written; strings that the code splits on "_" are sequences of the       *)
(* segments between the underscores.                                       *)
(*                                                                         *)
(* Seven specifications share the variables: Spec is the pipeline of one   *)
(* project, with state.json written by every save(); SpecStore is the      *)
(* StateManager called method by method, with save() writing in steps and  *)
(* the process stopping and restarting; SpecGateway is LLMProcessor.process*)
(* with the retry loop of GeminiClient.generate                            *)
(* (src/core/llm_processor.py, src/core/gemini_client.py); SpecPrompts is  *)
(* the PromptManager called method by method (src/core/prompt_manager.py); *)
(* SpecCompare is execute() of stage 3 on the responses of the model       *)
(* (src/stages/s03_compare.py); SpecArticle is the stages 4, 5 and 6 run   *)
(* and re-run on one stages directory, with the contents of the plan and   *)
(* of the section files (src/stages/s04_plan.py, s05_write.py,             *)
(* s06_merge.py); SpecProjects is the orchestrator creating, loading and   *)
(* listing the projects of its projects directory (src/pipeline.py).       *)
(***************************************************************************)
EXTENDS Integers, Sequences, FiniteSets, TLC

VARIABLES pipeline, statistics, materials, plan, sectionFiles, clock,
          pc, cur, ra, ret, usage, extra, project, disk, gw, pm, art,
          orchestrator

vars == <<pipeline, statistics, materials, plan, sectionFiles, clock,
          pc, cur, ra, ret, usage, extra, project, disk, gw, pm, art,
          orchestrator>>

\* the variables of the components that the pipeline's operations leave alone
aside == <<gw, pm, art, orchestrator>>

\* the same when the operation makes a generation call
asideOfCall == <<pm, art, orchestrator>>

(***************************************************************************)
(* Bounds of the exploration.                                              *)
(***************************************************************************)
\* runs that are not a fault-free run of the stage after current_stage: runs
\* of a stage at or below current_stage, and runs in which the environment
\* fails (a missing artifact, a failed generation call, an invalid response,
\* an invalid argument)
MaxExtra == 1
\* largest token count the backend reports for one generation call
MaxUsage == 1
\* longest range of stages given to run_all
MaxRange == 3
\* calls of LLMProcessor.process in one behaviour
MaxCalls == 2
\* the calls of the store are explored while the clock is below this reading
MaxClock == 6
\* longest response of stage 3, in words
MaxWords == 4
\* runs of the stages 4, 5 and 6 in one behaviour
MaxRuns == 5
\* the replies to the generation call of stage 5 differ (a failure, another
\* token count) only for the first MaxVaried sections of a run
MaxVaried == 2
\* sections of the longest plan
LongPlan == 100
\* generation calls of stage 5 in one behaviour: a run of stage 5 starts
\* only when the calls left suffice for its plan
MaxGenerated == 102

(***************************************************************************)
(* Program constants.                                                      *)
(***************************************************************************)
NumStages == 10

None == "None"

\* f"{i}" for the stage numbers, and int() of such a string
StrOf == <<"1", "2", "3", "4", "5", "6", "7", "8", "9", "10">>

Str(n) == StrOf[n]

ParseInt(s) == CHOOSE n \in 1..Len(StrOf) : StrOf[n] = s

\* the list stage_names of create_new
stage_names == <<"load", "format", "compare", "plan", "write",
                 "merge", "edit", "analyze", "select", "generate">>

\* the class attribute stage_name of the ten variants, split at "_"
StageName(n) ==
    CASE n = 1 -> <<"01", "load">>
      [] n = 2 -> <<"02", "format">>
      [] n = 3 -> <<"03", "compare">>
      [] n = 4 -> <<"04", "plan">>
      [] n = 5 -> <<"05", "write", "section">>
      [] n = 6 -> <<"06", "merge">>
      [] n = 7 -> <<"07", "literary", "edit">>
      [] n = 8 -> <<"08", "marketing", "analysis">>
      [] n = 9 -> <<"09", "select">>
      [] n = 10 -> <<"10", "generate">>

\* the class attribute output_file as the result of execute() carries it
OutputFile(n) ==
    CASE n = 1 -> "01_loaded.md"
      [] n = 2 -> "02_formatted.md"
      [] n = 3 -> "03_corrected.md"
      [] n = 4 -> "04_plan.json"
      [] n = 5 -> "05_sections/"
      [] n = 6 -> "06_merged.md"
      [] n = 7 -> "07_edited.md"
      [] n = 8 -> "08_analysis.md"
      [] n = 9 -> None
      [] n = 10 -> "output/materials/"

\* list(MATERIAL_TYPES.keys())
MaterialIds == <<"tg_vk_post", "email_announce", "press_release", "cards", "business_media">>

MATERIAL_TYPES == {MaterialIds[i] : i \in 1..Len(MaterialIds)}

\* MATERIAL_TYPES[id]["prompt_file"], split at "_"
PromptFile(id) ==
    CASE id = "tg_vk_post" -> <<"materials/tg", "vk", "post">>
      [] id = "email_announce" -> <<"materials/email", "announce">>
      [] id = "press_release" -> <<"materials/press", "release">>
      [] id = "cards" -> <<"materials/cards">>
      [] id = "business_media" -> <<"materials/business", "media">>

(***************************************************************************)
(* Inputs.                                                                 *)
(***************************************************************************)
\* values of the selected_materials argument of stage 9
SelectionInputs == { <<>>, <<"cards">>, <<"bogus", "cards", "nope">> }

\* section title slugs of the plans the model answers stage 4 with
PlanInputs == { <<"intro">>, <<"intro", "body">> }

EmptyDict == [x \in {} |-> TRUE]

\* the **kwargs of run_stage and run_all
KwargInputs ==
    {EmptyDict, [input_file |-> "interview.txt"]}
        \cup {[selected_materials |-> s] : s \in SelectionInputs}

(***************************************************************************)
(* Dict helpers.                                                           *)
(***************************************************************************)
Put(d, k, v) == (k :> v) @@ d

Has(d, k) == k \in DOMAIN d


(***************************************************************************)
(* Values of the statistics dict: a number or a string, told apart as      *)
(* isinstance(value, (int, float)) tells them apart.                       *)
(***************************************************************************)
PyInt(n) == [int |-> n]

PyStr(s) == [str |-> s]

IsNumber(value) == Has(value, "int")

(***************************************************************************)
(* Time.  The clock counts half seconds; datetime.now() is a datetime with *)
(* its seconds and microseconds.                                           *)
(***************************************************************************)
datetime_now(c) == [s |-> c \div 2, us |-> (c % 2) * 500000]

\* isoformat() cut to whole seconds
isoformat_seconds(d) == <<"T", d.s>>

\* datetime.isoformat(): the microseconds are left out when they are zero
isoformat(d) == IF d.us = 0 THEN <<"T", d.s>> ELSE <<"T", d.s, d.us>>

\* datetime.fromisoformat()
fromisoformat(t) == [s |-> t[2], us |-> IF Len(t) = 3 THEN t[3] ELSE 0]

(***************************************************************************)
(* StateManager.                                                           *)
(***************************************************************************)
\* self._state is None
NoState == EmptyDict

\* the fields of ProjectState kept in the variable project, as create_new
\* sets them
ProjectHeader(project_name, config, t) ==
    [version |-> "1.0", project_name |-> project_name, created_at |-> t,
     updated_at |-> t, config |-> config, input |-> EmptyDict]

\* self._state: the model ProjectState with its nine fields
ProjectState ==
    [version |-> project.version, project_name |-> project.project_name,
     created_at |-> project.created_at, updated_at |-> project.updated_at,
     config |-> project.config, input |-> project.input,
     pipeline |-> pipeline, materials |-> materials, statistics |-> statistics]

\* the names of the fields in the order model_dump() lists them
Fields == <<"version", "project_name", "created_at", "updated_at", "config",
            "input", "pipeline", "materials", "statistics">>

\* save(), lines 76-83: the text of state.json as its members followed by the
\* closing brace; the two datetimes are written in ISO format
Serialize(state) ==
    [i \in 1..(Len(Fields) + 1) |->
        IF i > Len(Fields) THEN <<"}">>
        ELSE IF Fields[i] \in {"created_at", "updated_at"}
             THEN <<Fields[i], isoformat(state[Fields[i]])>>
             ELSE <<Fields[i], state[Fields[i]]>>]

\* json.loads of the text: it fails unless the text is a whole document
Parses(text) == Len(text) = Len(Fields) + 1

\* load(), lines 54-62, of a text that parses
Parse(text) ==
    [f \in {Fields[i] : i \in 1..Len(Fields)} |->
        LET value == text[CHOOSE i \in 1..Len(Fields) : Fields[i] = f][2]
        IN  IF f \in {"created_at", "updated_at"} THEN fromisoformat(value) ELSE value]

NoFile == [exists |-> FALSE, text |-> <<>>]

File(text) == [exists |-> TRUE, text |-> text]

\* save() of the state whose fields outside pipeline, materials and statistics
\* are p: updated_at is stamped and the whole document is written
save(p) ==
    /\ project' = [p EXCEPT !.updated_at = datetime_now(clock')]
    /\ disk' = File(Serialize(ProjectState'))

\* LoadStage.execute, lines 59-63; the model's input file holds one character
LoadedInput(input_file) ==
    [original_file |-> input_file, original_size |-> 1, format |-> ".txt"]

SeededKey(i) == <<Str(i), stage_names[i]>>

SeededKeys == {SeededKey(i) : i \in 1..NumStages}

\* ProjectState.statistics as create_new builds it
NewStatistics ==
    [total_tokens_used |-> PyInt(0), total_api_calls |-> PyInt(0),
     total_time_seconds |-> PyInt(0)]

\* the project_config of create_project
Config == [model |-> "gemini-2.0-flash-exp", temperature |-> "0.7"]

\* ProjectState.pipeline as create_new builds it
create_new ==
    [current_stage |-> 0,
     stages |-> [k \in SeededKeys |-> [status |-> "pending"]]]

\* does update_stage read the clock: lines 156-160
Stamps(pl, stage_key, status) ==
    \/ status = "completed"
    \/ /\ status = "in_progress"
       /\ ~(Has(pl.stages, stage_key) /\ Has(pl.stages[stage_key], "started_at"))

\* the clock after update_stage: it has moved on when it is read again
Tick(pl, stage_key, status, now) ==
    IF Stamps(pl, stage_key, status) THEN now + 1 ELSE now

\* update_stage with the guard of line 167 lost: every status advances
\* current_stage
update_stage_unguarded(pl, stage_key, status, kwargs, now) ==
    LET stage0 == IF Has(pl.stages, stage_key) THEN pl.stages[stage_key] ELSE EmptyDict
        stage1 == Put(stage0, "status", status)
        stage2 == IF status = "in_progress" /\ ~Has(stage1, "started_at")
                  THEN Put(stage1, "started_at", now)
                  ELSE stage1
        stage3 == IF status = "completed"
                  THEN Put(stage2, "completed_at", now)
                  ELSE stage2
        stage4 == kwargs @@ stage3
    IN  [current_stage |-> ParseInt(stage_key[1]),
         stages |-> Put(pl.stages, stage_key, stage4)]

\* update_stage taking current_stage back below a stage that is in error
update_stage_error_rewinds(pl, stage_key, status, kwargs, now) ==
    LET stage0 == IF Has(pl.stages, stage_key) THEN pl.stages[stage_key] ELSE EmptyDict
        stage1 == Put(stage0, "status", status)
        stage2 == IF status = "in_progress" /\ ~Has(stage1, "started_at")
                  THEN Put(stage1, "started_at", now)
                  ELSE stage1
        stage3 == IF status = "completed"
                  THEN Put(stage2, "completed_at", now)
                  ELSE stage2
        stage4 == kwargs @@ stage3
        stage_num == ParseInt(stage_key[1])
    IN  [current_stage |-> IF status = "completed" THEN stage_num
                           ELSE IF status = "error" THEN stage_num - 1
                           ELSE pl.current_stage,
         stages |-> Put(pl.stages, stage_key, stage4)]

\* update_stage(stage_key, status, **kwargs) on the pipeline dict pl at time now
update_stage(pl, stage_key, status, kwargs, now) ==
    LET stage0 == IF Has(pl.stages, stage_key) THEN pl.stages[stage_key] ELSE EmptyDict
        stage1 == Put(stage0, "status", status)
        stage2 == IF status = "in_progress" /\ ~Has(stage1, "started_at")
                  THEN Put(stage1, "started_at", now)
                  ELSE stage1
        stage3 == IF status = "completed"
                  THEN Put(stage2, "completed_at", now)
                  ELSE stage2
        stage4 == kwargs @@ stage3
        stage_num == ParseInt(stage_key[1])
    IN  [current_stage |-> IF status = "completed" THEN stage_num ELSE pl.current_stage,
         stages |-> Put(pl.stages, stage_key, stage4)]

get_stage_status(pl, stage_key) ==
    IF Has(pl.stages, stage_key) THEN pl.stages[stage_key].status ELSE None

\* get_last_completed_stage counting the stage after current_stage as done
get_last_completed_stage_next(pl) == IF pl = NoState THEN 0 ELSE pl.current_stage + 1

\* get_last_completed_stage, lines 194-196
get_last_completed_stage(pl) == IF pl = NoState THEN 0 ELSE pl.current_stage

\* can_run_stage asking for the stage itself to be completed
can_run_stage_strict(pl, stage_num) ==
    IF stage_num = 1 THEN TRUE ELSE get_last_completed_stage(pl) >= stage_num

can_run_stage(pl, stage_num) ==
    IF stage_num = 1 THEN TRUE ELSE get_last_completed_stage(pl) >= stage_num - 1

\* update_statistics leaving a stored value alone when the value given is
\* not a number
update_statistics_numbers_only(st, kwargs) ==
    [k \in DOMAIN st \cup DOMAIN kwargs |->
        IF Has(kwargs, k)
        THEN IF Has(st, k)
             THEN IF IsNumber(kwargs[k])
                  THEN PyInt(st[k].int + kwargs[k].int)
                  ELSE st[k]
             ELSE kwargs[k]
        ELSE st[k]]

\* update_statistics with -= for += in line 227
update_statistics_subtracts(st, kwargs) ==
    [k \in DOMAIN st \cup DOMAIN kwargs |->
        IF Has(kwargs, k)
        THEN IF Has(st, k) /\ IsNumber(kwargs[k])
             THEN PyInt(st[k].int - kwargs[k].int)
             ELSE kwargs[k]
        ELSE st[k]]

\* update_statistics with = for += in line 227
update_statistics_overwrite(st, kwargs) ==
    [k \in DOMAIN st \cup DOMAIN kwargs |->
        IF Has(kwargs, k) THEN kwargs[k] ELSE st[k]]

\* update_statistics(**kwargs), lines 223-231; a number cannot be added to a
\* stored value that is not a number (Python raises TypeError)
update_statistics(st, kwargs) ==
    [k \in DOMAIN st \cup DOMAIN kwargs |->
        IF Has(kwargs, k)
        THEN IF Has(st, k) /\ IsNumber(kwargs[k])
             THEN PyInt(st[k].int + kwargs[k].int)
             ELSE kwargs[k]
        ELSE st[k]]

\* add_generated_material keeping the new record only
add_generated_material_replaces(mat, material_id, file_path, now) ==
    [mat EXCEPT !.generated =
        <<[id |-> material_id, file |-> file_path, generated_at |-> now]>>]

\* add_generated_material, lines 250-267
add_generated_material(mat, material_id, file_path, now) ==
    [mat EXCEPT !.generated =
        Append(@, [id |-> material_id, file |-> file_path, generated_at |-> now])]

(***************************************************************************)
(* BaseStage.                                                              *)
(***************************************************************************)
\* the property stage_key: the name after the first "_" of stage_name
stage_key(stage_id, stage_name) ==
    IF Len(stage_name) > 1
    THEN <<Str(stage_id)>> \o Tail(stage_name)
    ELSE <<Str(stage_id)>> \o stage_name

update_progress(pl, key, current, total, now) ==
    update_stage(pl, key, "in_progress",
                 [progress |-> [current |-> current, total |-> total]], now)

StageResult(success, output_file, tokens_used, error) ==
    [success |-> success, output_file |-> output_file,
     tokens_used |-> tokens_used, error |-> error]

NoResult == StageResult(FALSE, None, 0, None)

NoStage ==
    [stage_id |-> 0, stage_name |-> <<>>, kwargs |-> EmptyDict, start_key |-> <<>>,
     i |-> 0, total_tokens |-> 0, result |-> NoResult, exc |-> None, how |-> "none",
     charged |-> FALSE]

\* create_stage: does the constructor of variant n take these keyword arguments
Accepts(n, kw) ==
    CASE n = 1 -> DOMAIN kw = {"input_file"}
      [] n = 9 -> DOMAIN kw \subseteq {"selected_materials"}
      [] OTHER -> DOMAIN kw = {}

(***************************************************************************)
(* Pipeline.run_all bookkeeping.                                           *)
(***************************************************************************)
NoRunAll ==
    [active |-> FALSE, from |-> 0, to |-> 0, next |-> 0, kwargs |-> EmptyDict,
     results |-> <<>>, started |-> <<>>, touched |-> {}]

\* the loop of run_all without the break of lines 209-211
RunAllStops_no_break(result, stage_num, to_stage) ==
    stage_num >= to_stage

\* the loop of run_all ends after this result
RunAllStops(result, stage_num, to_stage) ==
    ~result.success \/ stage_num >= to_stage

Touch(r, key) == IF r.active THEN [r EXCEPT !.touched = @ \cup {key}] ELSE r

(***************************************************************************)
(* PromptManager (src/core/prompt_manager.py).  A directory of override    *)
(* files is a dict from the stage name to the text of {stage}.md; a text   *)
(* is a sequence of words.                                                 *)
(***************************************************************************)
Remove(d, k) == [x \in DOMAIN d \ {k} |-> d[x]]

\* DEFAULT_PROMPTS: the text of a default prompt is the word default and its key
DEFAULT_PROMPTS ==
    [k \in {"02_format", "03_compare", "04_plan", "05_write_section",
            "07_literary_edit", "08_marketing_analysis", "materials/tg_vk_post",
            "materials/email_announce", "materials/press_release",
            "materials/cards", "materials/business_media"} |-> <<"default", k>>]

\* the project directories of the model
Projects == {"p1", "p2"}

\* file_path is the empty path for None
PromptInfo(content, source, file_path) ==
    [content |-> content, source |-> source, file_path |-> file_path]

\* the manager as __init__ leaves it with no project, over empty override
\* directories; out is what the last call returned
NoPrompts ==
    [prompts_dir |-> EmptyDict, prompts |-> [d \in Projects |-> EmptyDict],
     project_dir |-> None, cache |-> EmptyDict, out |-> [kind |-> "none"]]

\* get_prompt_info, lines 444-446: the project prompt is there
HasProjectPrompt(m, stage) ==
    m.project_dir # None /\ Has(m.prompts[m.project_dir], stage)

\* get_prompt_info(stage): the manager after the call; out holds the
\* PromptInfo returned or the ValueError raised
get_prompt_info(m, stage) ==
    LET info == IF HasProjectPrompt(m, stage)
                THEN PromptInfo(m.prompts[m.project_dir][stage], "project",
                                <<m.project_dir, "prompts", stage>>)
                ELSE IF Has(m.prompts_dir, stage)
                THEN PromptInfo(m.prompts_dir[stage], "custom", <<"prompts_dir", stage>>)
                ELSE PromptInfo(DEFAULT_PROMPTS[stage], "default", <<>>)
    IN  IF Has(m.cache, stage)
        THEN [m EXCEPT !.out = [kind |-> "info", stage |-> stage,
                                info |-> m.cache[stage]]]
        ELSE IF HasProjectPrompt(m, stage) \/ Has(m.prompts_dir, stage)
                   \/ Has(DEFAULT_PROMPTS, stage)
        THEN [m EXCEPT !.cache = Put(@, stage, info),
                       !.out = [kind |-> "info", stage |-> stage, info |-> info]]
        ELSE [m EXCEPT !.out = [kind |-> "raised", stage |-> stage,
                                error |-> "ValueError"]]

\* save_prompt without line 510: the cache keeps the entry of the stage
save_prompt_keeps_cache(m, stage, content, to_project) ==
    LET saved == [kind |-> "saved", stage |-> stage, content |-> content,
                  to_project |-> to_project]
    IN  IF to_project /\ m.project_dir # None
        THEN [m EXCEPT !.prompts[m.project_dir] = Put(@, stage, content),
                       !.out = Put(saved, "path", <<m.project_dir, "prompts", stage>>)]
        ELSE [m EXCEPT !.prompts_dir = Put(@, stage, content),
                       !.out = Put(saved, "path", <<"prompts_dir", stage>>)]

\* save_prompt(stage, content, to_project)
save_prompt(m, stage, content, to_project) ==
    LET saved == [kind |-> "saved", stage |-> stage, content |-> content,
                  to_project |-> to_project]
    IN  IF to_project /\ m.project_dir # None
        THEN [m EXCEPT !.prompts[m.project_dir] = Put(@, stage, content),
                       !.cache = Remove(@, stage),
                       !.out = Put(saved, "path", <<m.project_dir, "prompts", stage>>)]
        ELSE [m EXCEPT !.prompts_dir = Put(@, stage, content),
                       !.cache = Remove(@, stage),
                       !.out = Put(saved, "path", <<"prompts_dir", stage>>)]

\* reset_to_default without lines 535-540: the custom prompt is kept
reset_to_default_keeps_custom(m, stage) ==
    LET deleted == HasProjectPrompt(m, stage)
        m1 == IF HasProjectPrompt(m, stage)
              THEN [m EXCEPT !.prompts[m.project_dir] = Remove(@, stage)]
              ELSE m
    IN  [m1 EXCEPT !.cache = Remove(@, stage),
                   !.out = [kind |-> "reset", stage |-> stage, deleted |-> deleted]]

\* reset_to_default(stage)
reset_to_default(m, stage) ==
    LET deleted == HasProjectPrompt(m, stage) \/ Has(m.prompts_dir, stage)
        m1 == IF HasProjectPrompt(m, stage)
              THEN [m EXCEPT !.prompts[m.project_dir] = Remove(@, stage)]
              ELSE m
    IN  [m1 EXCEPT !.prompts_dir = Remove(@, stage),
                   !.cache = Remove(@, stage),
                   !.out = [kind |-> "reset", stage |-> stage, deleted |-> deleted]]

\* set_project_dir(project_dir)
set_project_dir(m, project_dir) ==
    [m EXCEPT !.project_dir = project_dir, !.cache = EmptyDict,
              !.out = [kind |-> "project", project_dir |-> project_dir]]

(***************************************************************************)
(* The stages directory and execute() of stages 3 to 6 (src/stages/s03 to  *)
(* s06).  A text is a sequence of words; the separator of stage 3 is one   *)
(* word and " " stands for white space.  A title and a file name are       *)
(* sequences of code points, so that names sort as Python sorts strings.   *)
(***************************************************************************)
\* the literal "---ОТЧЁТ---" of CompareStage.execute, lines 43-44
Separator == "---OTCHET---"

\* text.split(sep)[0]: the text before the first sep, the whole text when
\* there is none
RECURSIVE split_0(_, _)
split_0(text, sep) ==
    IF text = <<>> \/ Head(text) = sep THEN <<>>
    ELSE <<Head(text)>> \o split_0(Tail(text), sep)

\* str.strip() taking white space off the right end only
RECURSIVE strip_right_only(_)
strip_right_only(text) ==
    IF text # <<>> /\ text[Len(text)] = " "
    THEN strip_right_only(SubSeq(text, 1, Len(text) - 1))
    ELSE text

\* str.strip()
RECURSIVE strip(_)
strip(text) ==
    IF text # <<>> /\ Head(text) = " " THEN strip(Tail(text))
    ELSE IF text # <<>> /\ text[Len(text)] = " "
    THEN strip(SubSeq(text, 1, Len(text) - 1))
    ELSE text

\* the directory after stages 1 to 3 have completed, and no stage running:
\* files holds the files of stages/, sections those of stages/05_sections/;
\* runs counts the runs of the stages 4 to 6, gen the generation calls of
\* stage 5; i, written_sections and total_tokens are what the run of stage 5
\* under way holds, usages the token counts call_llm returned in it, prompt
\* the prompt of the last call; bodies is the text generated last for each
\* section of the plan; out is what the last execute() returned or
\* raised
NoArtifacts ==
    [pc |-> "idle",
     files |-> [f \in {"01_loaded.md", "02_formatted.md", "03_corrected.md",
                       "03_corrected_with_report.md"} |-> <<"x">>],
     sections |-> EmptyDict, current_stage |-> 3, runs |-> 0, gen |-> 0,
     i |-> 0, written_sections |-> <<>>, total_tokens |-> 0, usages |-> <<>>,
     prompt |-> EmptyDict,
     bodies |-> <<>>, out |-> [kind |-> "none"]]

\* _extract_json, lines 74-86, of a response made of prose, code fences and
\* JSON objects: the text between the first two fences, else the text from
\* the first brace to the last, else the whole text; json.loads parses a text
\* that is one object
extract_json(text) ==
    LET at(kind) == {k \in 1..Len(text) : text[k].t = kind}
        least(S) == CHOOSE k \in S : \A j \in S : k <= j
        most(S) == CHOOSE k \in S : \A j \in S : k >= j
        json_text ==
            IF Cardinality(at("fence")) >= 2
            THEN SubSeq(text, least(at("fence")) + 1,
                        least(at("fence") \ {least(at("fence"))}) - 1)
            ELSE IF at("json") # {}
            THEN SubSeq(text, least(at("json")), most(at("json")))
            ELSE text
    IN  IF Len(json_text) = 1 /\ json_text[1].t = "json"
        THEN [ok |-> TRUE, value |-> json_text[1].value]
        ELSE [ok |-> FALSE]

\* _validate_plan, lines 98-112; the sections of the model's plans are lists
validate_plan(article_plan) ==
    /\ Has(article_plan, "title")
    /\ Has(article_plan, "sections")
    /\ Len(article_plan.sections) # 0
    /\ \A k \in 1..Len(article_plan.sections) :
          Has(article_plan.sections[k], "title") /\ Has(article_plan.sections[k], "key_points")

\* _slugify, lines 296-307, of a text of code points: lower case (Latin and
\* Cyrillic capitals), "_" for " ", only a-z, 0-9, "_" and "-" kept, cut to
\* max_length = 30
slugify(text) ==
    LET lower(c) == IF c \in 65..90 \cup 1040..1071 THEN c + 32 ELSE c
        slug == SelectSeq([k \in 1..Len(text) |->
                              IF lower(text[k]) = 32 THEN 95 ELSE lower(text[k])],
                          LAMBDA c : c \in 97..122 \cup 48..57 \cup {95, 45})
    IN  SubSeq(slug, 1, IF Len(slug) < 30 THEN Len(slug) ELSE 30)

\* f"{n}" as code points
RECURSIVE decimal(_)
decimal(n) == IF n < 10 THEN <<48 + n>> ELSE decimal(n \div 10) \o <<48 + (n % 10)>>

\* the file name without the number of the section
section_file_unnumbered(section_num, title) == slugify(title) \o <<46, 109, 100>>

\* WriteStage.execute, line 59: f"{i+1:02d}_{slug}.md" for section_num = i+1
section_file(section_num, title) ==
    (IF section_num < 10 THEN <<48>> ELSE <<>>) \o decimal(section_num)
        \o <<95>> \o slugify(title) \o <<46, 109, 100>>

\* _build_section_prompt with the first of the previous sections left out
build_section_prompt_forgets(section, section_num, total, transcript, article_plan, previous_sections) ==
    [plan |-> article_plan, transcript |-> transcript,
     prev_text |-> IF Len(previous_sections) > 1
                   THEN [k \in 1..(Len(previous_sections) - 1) |->
                           [heading |-> k + 1, text |-> previous_sections[k + 1]]]
                   ELSE <<[text |-> "(first section)"]>>,
     section_num |-> section_num, total |-> total, title |-> section.title,
     key_points_text |-> section.key_points]

\* _build_section_prompt, lines 96-137: the parts of the prompt; prev_text is
\* the previous sections under their headings "## Секция {i+1}", or the
\* placeholder for the first section
build_section_prompt(section, section_num, total, transcript, article_plan, previous_sections) ==
    [plan |-> article_plan, transcript |-> transcript,
     prev_text |-> IF previous_sections # <<>>
                   THEN [k \in 1..Len(previous_sections) |->
                           [heading |-> k, text |-> previous_sections[k]]]
                   ELSE <<[text |-> "(first section)"]>>,
     section_num |-> section_num, total |-> total, title |-> section.title,
     key_points_text |-> section.key_points]

\* sorted() of a set of file names: strings are compared code point by code
\* point, and a proper prefix comes first
RECURSIVE sorted(_)
sorted(names) ==
    LET less(a, b) ==
            \E j \in 1..(Len(a) + 1) :
                /\ j <= Len(b)
                /\ \A h \in 1..(j - 1) : a[h] = b[h]
                /\ j <= Len(a) => a[j] < b[j]
        first == CHOOSE x \in names : \A y \in names \ {x} : less(x, y)
    IN  IF names = {} THEN <<>> ELSE <<first>> \o sorted(names \ {first})

\* the gateway as GeminiClient.__init__ leaves it, no call under way; before,
\* attempts and slept record what a call of process() did; stage_name is the
\* stage_name of the last call of process(), returned counts the calls that
\* returned a result and tokens adds up their token counts
NoGateway ==
    [pc |-> "idle", calls |-> 0, last_token_count |-> 0, attempt |-> 0,
     last_error |-> None, before |-> 0, attempts |-> <<>>, slept |-> <<>>,
     stage_name |-> <<>>, returned |-> 0, tokens |-> 0,
     out |-> [kind |-> "none"]]

\* call_llm, lines 274-279: process() is called with the stage_name the
\* stage has at this moment, and returns a result with tokens_used or raises
Called(g, stage_name, ok, tokens_used) ==
    [g EXCEPT !.stage_name = stage_name,
              !.returned = IF ok THEN @ + 1 ELSE @,
              !.tokens = IF ok THEN @ + tokens_used ELSE @]

\* a project directory that does not exist
NoDirectory == [exists |-> FALSE, state_file |-> NoFile]

\* Pipeline.__init__, lines 35-41: the projects directory, with no project
\* in it, the directory of the current project and the state held by its
\* StateManager
NoOrchestrator ==
    [projects_dir |-> [project_name \in Projects |-> NoDirectory],
     project_dir |-> None, state |-> NoState]

Init ==
    /\ pipeline = create_new
    /\ statistics = NewStatistics
    /\ materials = [selected |-> <<>>, generated |-> <<>>]
    /\ plan = <<>>
    /\ sectionFiles = {}
    /\ clock = 1
    /\ pc = "idle"
    /\ cur = NoStage
    /\ ra = NoRunAll
    /\ ret = [kind |-> "none"]
    /\ usage \in 0..MaxUsage
    /\ extra = 0
    /\ project = ProjectHeader("demo", Config, datetime_now(0))
    /\ disk = File(Serialize(ProjectState))
    /\ gw = NoGateway
    /\ pm = NoPrompts
    /\ art = NoArtifacts
    /\ orchestrator = NoOrchestrator



(***************************************************************************)
(* Pipeline.run_stage.  It is called by the user when idle (frame          *)
(* NoRunAll), by the first pass of the loop of run_all (a new frame), or   *)
(* by a later pass of that loop (the frame in ra).                         *)
(***************************************************************************)
\* the to_stage arguments tried with from_stage: the empty range and the
\* ranges of at most MaxRange stages
RangeEnds(from_stage) ==
    {t \in 1..NumStages : from_stage - 1 <= t /\ t < from_stage + MaxRange}

\* run_all(from_stage, to_stage, **kw) entering its loop
NewFrame(from_stage, to_stage, kw) ==
    [NoRunAll EXCEPT !.active = TRUE, !.from = from_stage, !.to = to_stage,
                     !.next = from_stage, !.kwargs = kw]

\* the frames from which run_stage(n, **kw) can be called in this state
Frames(n, kw) ==
    CASE pc = "idle" ->
            {NoRunAll} \cup {NewFrame(n, t, kw) : t \in {e \in RangeEnds(n) : e >= n}}
      [] pc = "run_all" ->
            IF n = ra.next /\ kw = ra.kwargs THEN {ra} ELSE {}
      [] OTHER -> {}

\* an exception leaves run_stage, and run_all when it is the caller
RaiseOut(error) ==
    /\ ret' = [kind |-> "raised", error |-> error,
               first |-> get_last_completed_stage(pipeline) + 1]
    /\ pc' = "returned"
    /\ ra' = NoRunAll
    /\ cur' = NoStage
    /\ UNCHANGED <<pipeline, statistics, materials, plan, sectionFiles,
                   clock, usage, extra, project, disk, aside>>

\* run_stage, lines 153-158: the stage is not admitted
RunStageOutOfOrder(n, kw, r) ==
    /\ r \in Frames(n, kw)
    /\ ~can_run_stage(pipeline, n)
    /\ RaiseOut("OutOfOrder")

\* run_stage, lines 161-167: the constructor rejects the keyword arguments
RunStageBadArgs(n, kw, r) ==
    /\ r \in Frames(n, kw)
    /\ can_run_stage(pipeline, n)
    /\ ~Accepts(n, kw)
    /\ RaiseOut("TypeError")

\* run_stage admits and constructs the stage; run() marks it in_progress
RunStageStart(n, kw, r) ==
    /\ r \in Frames(n, kw)
    /\ can_run_stage(pipeline, n)
    /\ Accepts(n, kw)
    /\ n <= pipeline.current_stage => extra < MaxExtra
    /\ LET key == stage_key(n, StageName(n)) IN
        /\ cur' = [NoStage EXCEPT !.stage_id = n, !.stage_name = StageName(n),
                                  !.kwargs = kw, !.start_key = key, !.how = "running",
                                  !.charged = (n <= pipeline.current_stage)]
        /\ pipeline' = update_stage(pipeline, key, "in_progress", EmptyDict, clock)
        /\ clock' = Tick(pipeline, key, "in_progress", clock)
        /\ ra' = IF r.active
                 THEN [Touch(r, key) EXCEPT !.started = Append(@, n)]
                 ELSE r
    /\ pc' = "execute"
    /\ ret' = [kind |-> "none"]
    /\ extra' = IF n <= pipeline.current_stage THEN extra + 1 ELSE extra
    /\ UNCHANGED <<statistics, materials, plan, sectionFiles, usage, aside>>
    /\ save(project)

(***************************************************************************)
(* execute() of the ten variants.                                          *)
(***************************************************************************)
\* execute() returns this result to run()
Returns(result) ==
    /\ cur' = [cur EXCEPT !.result = result, !.how = "returned"]
    /\ pc' = "finish"
    /\ extra' = extra

\* the environment fails in this run
Fault ==
    /\ cur.charged \/ extra < MaxExtra
    /\ extra' = IF cur.charged THEN extra ELSE extra + 1

\* execute() returns a failed result because of a fault
FaultReturns(message) ==
    /\ Fault
    /\ cur' = [cur EXCEPT !.result = StageResult(FALSE, None, 0, message),
                          !.how = "returned", !.charged = TRUE]
    /\ pc' = "finish"

\* execute() raises
Raises(stage_name, message) ==
    /\ Fault
    /\ cur' = [cur EXCEPT !.stage_name = stage_name, !.exc = message,
                          !.how = "raised", !.charged = TRUE]
    /\ pc' = "except"

\* an input artifact is missing or unreadable, or the first generation call fails
ExecuteRaise ==
    /\ pc = "execute"
    /\ cur.i = 0
    /\ cur.stage_id # 9
    /\ Raises(cur.stage_name, "execute failed")
    /\ UNCHANGED <<pipeline, statistics, materials, plan, sectionFiles,
                   clock, ra, ret, usage, project, disk, aside>>

\* LoadStage.execute
LoadOk ==
    /\ pc = "execute"
    /\ cur.stage_id = 1
    /\ Returns(StageResult(TRUE, OutputFile(1), 0, None))
    /\ UNCHANGED <<pipeline, statistics, materials, plan, sectionFiles,
                   clock, ra, ret, usage, aside>>
    /\ save([project EXCEPT !.input = LoadedInput(cur.kwargs.input_file)])

\* FormatStage, CompareStage, EditStage, AnalyzeStage: one generation call
GenerateOk ==
    /\ pc = "execute"
    /\ cur.stage_id \in {2, 3, 7, 8}
    /\ Returns(StageResult(TRUE, OutputFile(cur.stage_id), usage, None))
    /\ UNCHANGED <<pipeline, statistics, materials, plan, sectionFiles,
                   clock, ra, ret, usage, project, disk, asideOfCall>>
    /\ gw' = Called(gw, cur.stage_name, TRUE, usage)

\* PlanStage.execute: the response holds the valid plan p
PlanOk(p) ==
    /\ pc = "execute"
    /\ cur.stage_id = 4
    /\ p \in PlanInputs
    /\ plan' = p
    /\ Returns(StageResult(TRUE, OutputFile(4), usage, None))
    /\ UNCHANGED <<pipeline, statistics, materials, sectionFiles, clock, ra,
                   ret, usage, project, disk, asideOfCall>>
    /\ gw' = Called(gw, cur.stage_name, TRUE, usage)

\* PlanStage.execute, lines 38-42: _validate_plan rejects the parsed plan
PlanInvalid ==
    /\ pc = "execute"
    /\ cur.stage_id = 4
    /\ FaultReturns("Invalid plan structure returned by LLM")
    /\ UNCHANGED <<pipeline, statistics, materials, plan, sectionFiles,
                   clock, ra, ret, usage, project, disk, asideOfCall>>
    /\ gw' = Called(gw, cur.stage_name, TRUE, usage)

\* WriteStage.execute: one pass of the loop over the plan's sections
WriteSectionOk ==
    /\ pc = "execute"
    /\ cur.stage_id = 5
    /\ cur.i < Len(plan)
    /\ LET key == stage_key(5, cur.stage_name) IN
        /\ pipeline' = update_progress(pipeline, key, cur.i + 1, Len(plan), clock)
        /\ clock' = Tick(pipeline, key, "in_progress", clock)
        /\ ra' = Touch(ra, key)
    /\ sectionFiles' = sectionFiles \cup {<<cur.i + 1, plan[cur.i + 1]>>}
    /\ cur' = [cur EXCEPT !.i = @ + 1, !.total_tokens = @ + usage]
    /\ UNCHANGED <<statistics, materials, plan, pc, ret, usage, extra, asideOfCall>>
    /\ save(project)
    /\ gw' = Called(gw, cur.stage_name, TRUE, usage)

\* WriteStage.execute: the generation call of section i+1 fails
WriteSectionRaise ==
    /\ pc = "execute"
    /\ cur.stage_id = 5
    /\ cur.i < Len(plan)
    /\ LET key == stage_key(5, cur.stage_name) IN
        /\ pipeline' = update_progress(pipeline, key, cur.i + 1, Len(plan), clock)
        /\ clock' = Tick(pipeline, key, "in_progress", clock)
        /\ ra' = Touch(ra, key)
    /\ Raises(cur.stage_name, "generation failed")
    /\ UNCHANGED <<statistics, materials, plan, sectionFiles, ret, usage,
                   asideOfCall>>
    /\ save(project)
    /\ gw' = Called(gw, cur.stage_name, FALSE, usage)

\* WriteStage.execute, lines 66-71
WriteDone ==
    /\ pc = "execute"
    /\ cur.stage_id = 5
    /\ plan # <<>>
    /\ cur.i = Len(plan)
    /\ Returns(StageResult(TRUE, OutputFile(5), cur.total_tokens, None))
    /\ UNCHANGED <<pipeline, statistics, materials, plan, sectionFiles,
                   clock, ra, ret, usage, project, disk, aside>>

\* MergeStage.execute: as many section files as plan sections
MergeOk ==
    /\ pc = "execute"
    /\ cur.stage_id = 6
    /\ plan # <<>>
    /\ Cardinality(sectionFiles) = Len(plan)
    /\ Returns(StageResult(TRUE, OutputFile(6), 0, None))
    /\ UNCHANGED <<pipeline, statistics, materials, plan, sectionFiles,
                   clock, ra, ret, usage, project, disk, aside>>

\* MergeStage.execute, lines 35-39
MergeMismatch ==
    /\ pc = "execute"
    /\ cur.stage_id = 6
    /\ plan # <<>>
    /\ Cardinality(sectionFiles) # Len(plan)
    /\ Returns(StageResult(FALSE, None, 0, "Section count mismatch"))
    /\ UNCHANGED <<pipeline, statistics, materials, plan, sectionFiles,
                   clock, ra, ret, usage, project, disk, aside>>

\* SelectStage: the list given, or all catalog entries when none is given
Selection(kw) ==
    IF Has(kw, "selected_materials") THEN kw.selected_materials ELSE MaterialIds

\* the validation of lines 87-92 finding nothing
Invalid_nothing(selection) == <<>>

\* SelectStage.execute, line 87
Invalid(selection) == SelectSeq(selection, LAMBDA m : m \notin MATERIAL_TYPES)

\* sep.join(items) of a list of strings
RECURSIVE join(_, _)
join(sep, items) ==
    IF items = <<>> THEN ""
    ELSE IF Len(items) = 1 THEN items[1]
    ELSE items[1] \o sep \o join(sep, Tail(items))

\* SelectStage.execute, lines 94-102
SelectOk ==
    /\ pc = "execute"
    /\ cur.stage_id = 9
    /\ Invalid(Selection(cur.kwargs)) = <<>>
    /\ materials' = [materials EXCEPT !.selected = Selection(cur.kwargs)]
    /\ Returns(StageResult(TRUE, None, 0, None))
    /\ UNCHANGED <<pipeline, statistics, plan, sectionFiles, clock, ra, ret,
                   usage, aside>>
    /\ save(project)

\* SelectStage.execute, lines 87-92
SelectInvalid ==
    /\ pc = "execute"
    /\ cur.stage_id = 9
    /\ Invalid(Selection(cur.kwargs)) # <<>>
    /\ FaultReturns("Invalid material types: "
                        \o join(", ", Invalid(Selection(cur.kwargs))))
    /\ UNCHANGED <<pipeline, statistics, materials, plan, sectionFiles,
                   clock, ra, ret, usage, project, disk, aside>>

\* GenerateStage.execute, lines 35-39
GenerateEmpty ==
    /\ pc = "execute"
    /\ cur.stage_id = 10
    /\ materials.selected = <<>>
    /\ Returns(StageResult(FALSE, None, 0, "No materials selected"))
    /\ UNCHANGED <<pipeline, statistics, materials, plan, sectionFiles,
                   clock, ra, ret, usage, project, disk, aside>>

\* GenerateStage.execute: one pass of the loop, the generation call succeeds
\* and stage_name is restored
GenerateMaterialOk ==
    /\ pc = "execute"
    /\ cur.stage_id = 10
    /\ cur.i < Len(materials.selected)
    /\ LET key == stage_key(10, cur.stage_name)
           material_id == materials.selected[cur.i + 1]
           now == Tick(pipeline, key, "in_progress", clock) IN
        /\ pipeline' = update_progress(pipeline, key, cur.i + 1,
                                       Len(materials.selected), clock)
        /\ materials' = add_generated_material(materials, material_id, material_id, now)
        /\ clock' = now + 1
        /\ ra' = Touch(ra, key)
    /\ cur' = [cur EXCEPT !.i = @ + 1, !.total_tokens = @ + usage]
    /\ UNCHANGED <<statistics, plan, sectionFiles, pc, ret, usage, extra,
                   asideOfCall>>
    /\ save(project)
    /\ gw' = Called(gw, PromptFile(materials.selected[cur.i + 1]), TRUE, usage)

\* GenerateStage.execute: the generation call fails while stage_name holds
\* the material's prompt reference (lines 63-66)
GenerateMaterialRaise ==
    /\ pc = "execute"
    /\ cur.stage_id = 10
    /\ cur.i < Len(materials.selected)
    /\ LET key == stage_key(10, cur.stage_name) IN
        /\ pipeline' = update_progress(pipeline, key, cur.i + 1,
                                       Len(materials.selected), clock)
        /\ clock' = Tick(pipeline, key, "in_progress", clock)
        /\ ra' = Touch(ra, key)
    /\ Raises(PromptFile(materials.selected[cur.i + 1]), "generation failed")
    /\ UNCHANGED <<statistics, materials, plan, sectionFiles, ret, usage,
                   asideOfCall>>
    /\ save(project)
    /\ gw' = Called(gw, PromptFile(materials.selected[cur.i + 1]), FALSE, usage)

\* GenerateStage.execute, lines 83-88
GenerateDone ==
    /\ pc = "execute"
    /\ cur.stage_id = 10
    /\ materials.selected # <<>>
    /\ cur.i = Len(materials.selected)
    /\ Returns(StageResult(TRUE, OutputFile(10), cur.total_tokens, None))
    /\ UNCHANGED <<pipeline, statistics, materials, plan, sectionFiles,
                   clock, ra, ret, usage, project, disk, aside>>

(***************************************************************************)
(* BaseStage.run after execute(), and the return to the caller.            *)
(***************************************************************************)
\* run_stage returns result: to the user, or to the loop of run_all
Deliver(result, r) ==
    IF ~r.active
    THEN /\ pc' = "returned"
         /\ ret' = [kind |-> "result", result |-> result]
         /\ ra' = r
    ELSE LET rs == Append(r.results, result) IN
         IF RunAllStops(result, cur.stage_id, r.to)
         THEN /\ pc' = "returned"
              /\ ret' = [kind |-> "results", results |-> rs]
              /\ ra' = [r EXCEPT !.active = FALSE, !.results = rs]
         ELSE /\ pc' = "run_all"
              /\ ret' = ret
              /\ ra' = [r EXCEPT !.results = rs, !.next = @ + 1]

\* run(), lines 99-117, a successful result
RunFinishSuccess ==
    /\ pc = "finish"
    /\ cur.result.success
    /\ LET key == stage_key(cur.stage_id, cur.stage_name) IN
        /\ pipeline' = update_stage(pipeline, key, "completed",
                                    [output_file |-> cur.result.output_file,
                                     tokens_used |-> cur.result.tokens_used], clock)
        /\ clock' = Tick(pipeline, key, "completed", clock)
        /\ Deliver(cur.result, Touch(ra, key))
    /\ statistics' = IF cur.result.tokens_used > 0
                     THEN update_statistics(statistics,
                            [total_tokens_used |-> PyInt(cur.result.tokens_used),
                             total_api_calls |-> PyInt(1)])
                     ELSE statistics
    /\ UNCHANGED <<materials, plan, sectionFiles, cur, usage, extra, aside>>
    /\ save(project)

\* run(), lines 100 and 117, a failed result
RunFinishFailure ==
    /\ pc = "finish"
    /\ ~cur.result.success
    /\ Deliver(cur.result, ra)
    /\ UNCHANGED <<pipeline, statistics, materials, plan, sectionFiles,
                   clock, cur, usage, extra, project, disk, aside>>

\* run(), lines 119-126
RunExcept ==
    /\ pc = "except"
    /\ LET key == stage_key(cur.stage_id, cur.stage_name)
           error_result == StageResult(FALSE, None, 0, cur.exc) IN
        /\ pipeline' = update_stage(pipeline, key, "error",
                                    [error_message |-> cur.exc], clock)
        /\ clock' = Tick(pipeline, key, "error", clock)
        /\ Deliver(error_result, Touch(ra, key))
    /\ UNCHANGED <<statistics, materials, plan, sectionFiles, cur, usage,
                   extra, aside>>
    /\ save(project)

(***************************************************************************)
(* Pipeline.run_all with an empty range, and the caller.                   *)
(***************************************************************************)
\* run_all, lines 198-213, when range(from_stage, to_stage + 1) is empty
RunAllEmpty(from_stage, to_stage, kw) ==
    /\ pc = "idle"
    /\ from_stage > to_stage
    /\ pc' = "returned"
    /\ ret' = [kind |-> "results", results |-> <<>>]
    /\ ra' = NoRunAll
    /\ UNCHANGED <<pipeline, statistics, materials, plan, sectionFiles,
                   clock, cur, usage, extra, project, disk, aside>>

\* the caller takes the returned value or the exception; the stage object and
\* the frame of run_all are gone
Continue ==
    /\ pc = "returned"
    /\ pc' = "idle"
    /\ ret' = [kind |-> "none"]
    /\ cur' = NoStage
    /\ ra' = NoRunAll
    /\ UNCHANGED <<pipeline, statistics, materials, plan, sectionFiles,
                   clock, usage, extra, project, disk, aside>>

Next ==
    \/ \E n \in 1..NumStages, kw \in KwargInputs :
          \E r \in Frames(n, kw) : RunStageOutOfOrder(n, kw, r)
    \/ \E n \in 1..NumStages, kw \in KwargInputs :
          \E r \in Frames(n, kw) : RunStageBadArgs(n, kw, r)
    \/ \E n \in 1..NumStages, kw \in KwargInputs :
          \E r \in Frames(n, kw) : RunStageStart(n, kw, r)
    \/ ExecuteRaise
    \/ LoadOk
    \/ GenerateOk
    \/ \E p \in PlanInputs : PlanOk(p)
    \/ PlanInvalid
    \/ WriteSectionOk
    \/ WriteSectionRaise
    \/ WriteDone
    \/ MergeOk
    \/ MergeMismatch
    \/ SelectOk
    \/ SelectInvalid
    \/ GenerateEmpty
    \/ GenerateMaterialOk
    \/ GenerateMaterialRaise
    \/ GenerateDone
    \/ RunFinishSuccess
    \/ RunFinishFailure
    \/ RunExcept
    \/ \E f \in 2..NumStages : RunAllEmpty(f, f - 1, EmptyDict)
    \/ Continue

Spec == Init /\ [][Next]_vars


(***************************************************************************)
(* The state store by itself: a StateManager on an empty project directory *)
(* and the calls of its methods, with save() writing state.json in steps   *)
(* (write_text opens the file, which empties it, and writes the text in    *)
(* two blocks) and the process stopping at any point.  plan, sectionFiles, *)
(* cur, ra, usage and extra play no part.                                  *)
(***************************************************************************)
pipelineOnly == <<plan, sectionFiles, cur, ra, usage, extra>>

\* values of the kwargs of update_statistics
StatisticsInputs ==
    {[total_tokens_used |-> PyInt(100)], [total_tokens_used |-> PyStr("n/a")],
     [retries |-> PyInt(1)]}

StoreInit ==
    /\ project = NoState
    /\ pipeline = NoState
    /\ materials = NoState
    /\ statistics = NoState
    /\ disk = NoFile
    /\ clock = 1
    /\ pc = "idle"
    /\ ret = [kind |-> "none"]
    /\ plan = <<>>
    /\ sectionFiles = {}
    /\ cur = NoStage
    /\ ra = NoRunAll
    /\ usage = 0
    /\ extra = 0
    /\ gw = NoGateway
    /\ pm = NoPrompts
    /\ art = NoArtifacts
    /\ orchestrator = NoOrchestrator

\* save() returning before anything is written
begin_save_write_behind(p, t) ==
    /\ project' = [p EXCEPT !.updated_at = datetime_now(t)]
    /\ clock' = t + 1
    /\ disk' = disk
    /\ pc' = "idle"

\* save(), lines 72-82, reading the clock at t, up to write_text having opened
\* state.json for writing
begin_save(p, t) ==
    /\ project' = [p EXCEPT !.updated_at = datetime_now(t)]
    /\ clock' = t + 1
    /\ disk' = File(<<>>)
    /\ pc' = "write"

\* save(), lines 82-85: write_text writes the next block of the text
SaveWrite ==
    /\ pc = "write"
    /\ LET text == Serialize(ProjectState)
           n == IF disk.text = <<>> THEN Len(text) \div 2 ELSE Len(text) IN
        /\ disk' = File(SubSeq(text, 1, n))
        /\ pc' = IF n = Len(text) THEN "idle" ELSE "write"
        /\ ret' = IF n = Len(text) THEN [kind |-> "none"] ELSE ret
    /\ UNCHANGED <<project, pipeline, materials, statistics, clock, pipelineOnly, aside>>

\* a call of a method that changes the state: there is a state (lines 150,
\* 220, 242, 258, 304)
Mutable == pc = "idle" /\ project # NoState /\ clock < MaxClock

StoreCreateNew(project_name, config) ==
    /\ pc = "idle"
    /\ clock < MaxClock
    /\ pipeline' = create_new
    /\ materials' = [selected |-> <<>>, generated |-> <<>>]
    /\ statistics' = NewStatistics
    /\ begin_save(ProjectHeader(project_name, config, datetime_now(clock)), clock + 1)
    /\ UNCHANGED <<ret, pipelineOnly, aside>>

StoreUpdateStage(key, status, kwargs) ==
    /\ Mutable
    /\ pipeline' = update_stage(pipeline, key, status, kwargs, clock)
    /\ begin_save(project, Tick(pipeline, key, status, clock))
    /\ UNCHANGED <<materials, statistics, ret, pipelineOnly, aside>>

\* line 227: the stored value of every number given can be added to
Addable(st, kwargs) ==
    \A k \in DOMAIN kwargs : (Has(st, k) /\ IsNumber(kwargs[k])) => IsNumber(st[k])

StoreUpdateStatistics(kwargs) ==
    /\ Mutable
    /\ Addable(statistics, kwargs)
    /\ statistics' = update_statistics(statistics, kwargs)
    /\ ret' = [kind |-> "update_statistics", kwargs |-> kwargs]
    /\ begin_save(project, clock)
    /\ UNCHANGED <<pipeline, materials, pipelineOnly, aside>>

\* line 227 raises TypeError for the one key given: nothing is changed or saved
StoreUpdateStatisticsRaises(kwargs) ==
    /\ Mutable
    /\ ~Addable(statistics, kwargs)
    /\ pc' = "returned"
    /\ ret' = [kind |-> "raised", error |-> "TypeError"]
    /\ UNCHANGED <<project, pipeline, materials, statistics, clock, disk,
                   pipelineOnly, aside>>

\* add_selected_material, lines 245-247; it does nothing for a material
\* already in the list
StoreAddSelected(material_id) ==
    /\ Mutable
    /\ \A i \in 1..Len(materials.selected) : materials.selected[i] # material_id
    /\ materials' = [materials EXCEPT !.selected = Append(@, material_id)]
    /\ begin_save(project, clock)
    /\ UNCHANGED <<pipeline, statistics, ret, pipelineOnly, aside>>

StoreAddGenerated(material_id, file_path) ==
    /\ Mutable
    /\ materials' = add_generated_material(materials, material_id, file_path, clock)
    /\ begin_save(project, clock + 1)
    /\ UNCHANGED <<pipeline, statistics, ret, pipelineOnly, aside>>

\* set(), lines 308-321, for a path of one or two keys: the value is put in a
\* dump of the state and ProjectState is rebuilt from the dump, which keeps
\* the fields of the model
set(state, path, value) ==
    LET parent == IF Has(state, path[1]) THEN state[path[1]] ELSE EmptyDict
        obj == IF Len(path) = 1
               THEN Put(state, path[1], value)
               ELSE Put(state, path[1], Put(parent, path[2], value))
    IN  [f \in DOMAIN state |-> obj[f]]

\* the fields of a ProjectState that the variable project holds
Header(state) ==
    [f \in DOMAIN state \ {"pipeline", "materials", "statistics"} |-> state[f]]

StoreSet(path, value) ==
    /\ Mutable
    /\ LET state == set(ProjectState, path, value) IN
        /\ pipeline' = state.pipeline
        /\ materials' = state.materials
        /\ statistics' = state.statistics
        /\ begin_save(Header(state), clock)
    /\ UNCHANGED <<ret, pipelineOnly, aside>>

\* LoadStage.execute assigning to the state and calling save(), lines 59-64
LoadAssigns(input_file) ==
    /\ Mutable
    /\ begin_save([project EXCEPT !.input = LoadedInput(input_file)], clock)
    /\ UNCHANGED <<pipeline, materials, statistics, ret, pipelineOnly, aside>>

\* SelectStage.execute assigning to the state and calling save(), lines 95-96
SelectAssigns(selected_materials) ==
    /\ Mutable
    /\ materials' = [materials EXCEPT !.selected = selected_materials]
    /\ begin_save(project, clock)
    /\ UNCHANGED <<pipeline, statistics, ret, pipelineOnly, aside>>

\* the process stops; what it held in memory is gone
Stop ==
    /\ pc \in {"idle", "write"}
    /\ disk.exists
    /\ pc' = "stopped"
    /\ project' = NoState
    /\ pipeline' = NoState
    /\ materials' = NoState
    /\ statistics' = NoState
    /\ ret' = [kind |-> "none"]
    /\ UNCHANGED <<clock, disk, pipelineOnly, aside>>

\* load(): the state read from state.json, None when there is no file or its
\* text does not parse
load == IF disk.exists /\ Parses(disk.text) THEN Parse(disk.text) ELSE NoState

\* a new process binds a StateManager to the directory and calls load()
Restart ==
    /\ pc = "stopped"
    /\ pc' = "idle"
    /\ IF load = NoState
       THEN /\ project' = NoState
            /\ pipeline' = NoState
            /\ materials' = NoState
            /\ statistics' = NoState
       ELSE /\ project' = Header(load)
            /\ pipeline' = load.pipeline
            /\ materials' = load.materials
            /\ statistics' = load.statistics
    /\ UNCHANGED <<clock, disk, ret, pipelineOnly, aside>>

\* a second StateManager bound to the directory calls load()
Load ==
    /\ pc = "idle"
    /\ pc' = "returned"
    /\ ret' = [kind |-> "loaded", state |-> load]
    /\ UNCHANGED <<project, pipeline, materials, statistics, clock, disk,
                   pipelineOnly, aside>>

\* a call of can_run_stage(stage_num)
CanRunStage(stage_num) ==
    /\ pc = "idle"
    /\ pc' = "returned"
    /\ ret' = [kind |-> "can_run", stage_num |-> stage_num,
               value |-> can_run_stage(pipeline, stage_num)]
    /\ UNCHANGED <<project, pipeline, materials, statistics, clock, disk,
                   pipelineOnly, aside>>

StoreNext ==
    \/ StoreCreateNew("demo", Config)
    \/ \E key \in {SeededKey(1), <<"5", "write", "section">>} :
          \/ StoreUpdateStage(key, "in_progress", EmptyDict)
          \/ StoreUpdateStage(key, "completed", EmptyDict)
          \/ StoreUpdateStage(key, "error", [error_message |-> "failed"])
    \/ \E kwargs \in StatisticsInputs : StoreUpdateStatistics(kwargs)
    \/ \E kwargs \in StatisticsInputs : StoreUpdateStatisticsRaises(kwargs)
    \/ StoreAddSelected("cards")
    \/ StoreAddGenerated("cards", "cards.md")
    \/ StoreSet(<<"pipeline", "current_stage">>, NumStages)
    \/ StoreSet(<<"project_name">>, "renamed")
    \/ StoreSet(<<"notes", "author">>, "anonymous")
    \/ LoadAssigns("interview.txt")
    \/ SelectAssigns(<<"cards">>)
    \/ SaveWrite
    \/ Stop
    \/ Restart
    \/ Load
    \/ \E stage_num \in 1..NumStages : CanRunStage(stage_num)
    \/ Continue

SpecStore == StoreInit /\ [][StoreNext]_vars

(***************************************************************************)
(* The generation gateway by itself: LLMProcessor.process calling          *)
(* GeminiClient.generate, whose loop makes up to max_retries attempts.     *)
(* Each action is one pass of the loop with one outcome of the backend.    *)
(***************************************************************************)
max_retries == 3

retry_delay == 5

storeVars == <<project, pipeline, materials, statistics, clock, disk, pc, ret>>

\* errors of the backend
Errors == {"unavailable", "blocked"}

\* the response has no usage_metadata
NoUsage == 0

\* process(), lines 71-80, entering the loop of generate(), lines 84-85
Process ==
    /\ gw.pc = "idle"
    /\ gw.calls < MaxCalls
    /\ gw' = [gw EXCEPT !.pc = "attempt", !.calls = @ + 1, !.attempt = 0,
                        !.last_error = None, !.before = gw.last_token_count,
                        !.attempts = <<>>, !.slept = <<>>]
    /\ UNCHANGED <<storeVars, pipelineOnly, asideOfCall>>

\* what this pass of the loop met
Attempted(g, ok, reported, error) ==
    [g EXCEPT !.attempts = Append(@, [ok |-> ok, usage |-> reported, error |-> error])]

\* generate(), lines 91-92
Reported(g, reported) ==
    IF reported # NoUsage THEN [g EXCEPT !.last_token_count = reported] ELSE g

\* generate() with one pass more than max_retries
MoreAttempts_one_more(attempt) == attempt < max_retries

\* generate(), line 100: another pass follows this failed one
MoreAttempts(attempt) == attempt < max_retries - 1

\* generate(), lines 88-94, and process(), lines 87-92: the backend answers,
\* with a usage count or without, and the text is returned
AttemptOk(reported) ==
    /\ gw.pc = "attempt"
    /\ LET g == Reported(Attempted(gw, TRUE, reported, None), reported) IN
        gw' = [g EXCEPT !.pc = "returned",
                        !.returned = @ + 1,
                        !.tokens = @ + g.last_token_count,
                        !.out = [kind |-> "result", content |-> Len(g.attempts),
                                 tokens_used |-> g.last_token_count]]
    /\ UNCHANGED <<storeVars, pipelineOnly, asideOfCall>>

\* generate(), lines 96-106: the pass failed with error e after the backend
\* answered with the usage count reported (response.text raised) or without
\* an answer (NoUsage); the loop sleeps and goes on, or ends and the error
\* is raised through process()
AttemptFails(reported, e) ==
    /\ gw.pc = "attempt"
    /\ LET g == [Reported(Attempted(gw, FALSE, reported, e), reported)
                    EXCEPT !.last_error = e] IN
        gw' = IF MoreAttempts(gw.attempt)
              THEN [g EXCEPT !.slept = Append(@, retry_delay * (gw.attempt + 1)),
                             !.attempt = @ + 1]
              ELSE [g EXCEPT !.pc = "returned",
                             !.out = [kind |-> "raised", error |-> g.last_error]]
    /\ UNCHANGED <<storeVars, pipelineOnly, asideOfCall>>

\* the caller of process() has the result or the error
GatewayContinue ==
    /\ gw.pc = "returned"
    /\ gw' = [gw EXCEPT !.pc = "idle", !.out = [kind |-> "none"], !.attempts = <<>>,
                        !.slept = <<>>, !.attempt = 0, !.last_error = None,
                        !.before = 0]
    /\ UNCHANGED <<storeVars, pipelineOnly, asideOfCall>>

GatewayNext ==
    \/ Process
    \/ \E reported \in {NoUsage} \cup 1..MaxUsage : AttemptOk(reported)
    \/ \E reported \in {NoUsage} \cup 1..MaxUsage, e \in Errors :
          AttemptFails(reported, e)
    \/ GatewayContinue

SpecGateway == StoreInit /\ [][GatewayNext]_vars

(***************************************************************************)
(* The prompt manager by itself: one PromptManager and the calls of its    *)
(* methods.                                                                *)
(***************************************************************************)
\* the stages asked for: one with a default prompt and one without
PromptStages == {"04_plan", "10_generate"}

notPrompts == <<storeVars, pipelineOnly, gw, art, orchestrator>>

\* a call of get_prompt_info, of save_prompt with one of two texts, of
\* reset_to_default or of set_project_dir
PromptsNext ==
    \/ \E stage \in PromptStages :
          pm' = get_prompt_info(pm, stage) /\ UNCHANGED notPrompts
    \/ \E stage \in PromptStages, content \in {<<"A">>, <<"B">>}, to_project \in BOOLEAN :
          pm' = save_prompt(pm, stage, content, to_project) /\ UNCHANGED notPrompts
    \/ \E stage \in PromptStages :
          pm' = reset_to_default(pm, stage) /\ UNCHANGED notPrompts
    \/ \E project_dir \in Projects \cup {None} :
          pm' = set_project_dir(pm, project_dir) /\ UNCHANGED notPrompts

SpecPrompts == StoreInit /\ [][PromptsNext]_vars

(***************************************************************************)
(* Stage 3 by itself: CompareStage.execute on the stages directory, once   *)
(* for every response of at most MaxWords words.                           *)
(***************************************************************************)
notArtifacts == <<storeVars, pipelineOnly, gw, pm, orchestrator>>

\* the texts of at most MaxWords words over the separator, white space and
\* one other word
Texts ==
    UNION {[1..len -> {Separator, " ", "x"}] : len \in 0..MaxWords}

\* CompareStage.execute, lines 28-58, when call_llm returns content with
\* tokens_used
Compare(content, tokens_used) ==
    /\ art.pc = "idle"
    /\ {"01_loaded.md", "02_formatted.md"} \subseteq DOMAIN art.files
    /\ LET text_part == IF \E k \in 1..Len(content) : content[k] = Separator
                        THEN strip(split_0(content, Separator))
                        ELSE content
       IN  art' = [art EXCEPT
                     !.files = Put(Put(@, "03_corrected.md", text_part),
                                   "03_corrected_with_report.md", content),
                     !.out = [kind |-> "result", stage |-> 3, content |-> content,
                              result |-> StageResult(TRUE, OutputFile(3),
                                                     tokens_used, None)]]
    /\ UNCHANGED notArtifacts

\* CompareStage.execute when call_llm raises, line 40: nothing is written
CompareRaises ==
    /\ art.pc = "idle"
    /\ {"01_loaded.md", "02_formatted.md"} \subseteq DOMAIN art.files
    /\ art' = [art EXCEPT !.out = [kind |-> "raised", stage |-> 3,
                                    error |-> "generation failed"]]
    /\ UNCHANGED notArtifacts

CompareNext ==
    \/ \E content \in Texts, tokens_used \in 0..MaxUsage : Compare(content, tokens_used)
    \/ CompareRaises

SpecCompare == StoreInit /\ [][CompareNext]_vars

(***************************************************************************)
(* Stages 4, 5 and 6 on the stages directory: run_stage admits the stage   *)
(* by the last completed stage, execute() runs (stage 5 one pass of its    *)
(* loop at a time) and a successful result makes the stage the last        *)
(* completed one.                                                          *)
(***************************************************************************)
\* the plans the responses of stage 4 hold: titles are "T", "A b", "Я", "s"
\* and "" as code points
Plans ==
    LET point == [title |-> <<65, 32, 98>>, key_points |-> <<"a">>]
    IN  <<[title |-> <<84>>, sections |-> <<point>>],
          [title |-> <<84>>],
          [title |-> <<84>>, subtitle |-> <<115>>,
           sections |-> <<point, [title |-> <<1071>>, key_points |-> <<"a", "b">>]>>],
          [title |-> <<84>>,
           sections |-> [k \in 1..LongPlan |-> [title |-> <<115>>, key_points |-> <<"a">>]]],
          [title |-> <<84>>, sections |-> <<[title |-> <<>>, key_points |-> <<>>]>>],
          [sections |-> <<point>>],
          [title |-> <<84>>, sections |-> <<>>],
          [title |-> <<84>>, sections |-> <<point, [title |-> <<65>>]>>]>>

\* the responses of stage 4: every plan as a bare object; the first two also
\* in fences, in prose, in fences and prose, and twice; and texts that hold
\* no single object
Responses ==
    LET prose == [t |-> "prose"]
        fence == [t |-> "fence"]
        object(k) == [t |-> "json", value |-> Plans[k]]
    IN  {<<object(k)>> : k \in DOMAIN Plans}
          \cup UNION {{<<fence, object(k), fence>>,
                       <<prose, object(k), prose>>,
                       <<prose, fence, object(k), fence, prose>>,
                       <<object(k), prose, object(k)>>,
                       <<fence, prose, object(k), fence>>} : k \in 1..2}
          \cup {<<>>, <<prose>>, <<fence, fence>>, <<fence, prose, fence>>}

\* run_stage(4) admits the stage and PlanStage.execute runs, lines 29-55,
\* when call_llm returns the response with
\* tokens_used; json.loads of the plan file gives back what save_json wrote
Plan(response, tokens_used) ==
    /\ art.pc = "idle"
    /\ art.runs < MaxRuns
    /\ can_run_stage([current_stage |-> art.current_stage], 4)
    /\ Has(art.files, "03_corrected.md")
    /\ LET json == extract_json(response)
           article_plan == json.value
           readable ==
               <<[h1 |-> article_plan.title]>>
                   \o (IF Has(article_plan, "subtitle") THEN <<[em |-> article_plan.subtitle]>> ELSE <<>>)
                   \o [k \in 1..Len(article_plan.sections) |->
                         [h3 |-> <<k, article_plan.sections[k].title>>,
                          key_points |-> article_plan.sections[k].key_points]]
       IN  art' =
             IF ~json.ok
             THEN [art EXCEPT !.runs = @ + 1,
                              !.out = [kind |-> "raised", stage |-> 4,
                                       error |-> "JSONDecodeError"]]
             ELSE IF ~validate_plan(article_plan)
             THEN [art EXCEPT !.runs = @ + 1,
                              !.out = [kind |-> "result", stage |-> 4,
                                       result |-> StageResult(FALSE, None, 0,
                                           "Invalid plan structure returned by LLM")]]
             ELSE [art EXCEPT !.runs = @ + 1,
                              !.files = Put(Put(@, "04_plan.json", article_plan),
                                            "04_plan_readable.md", readable),
                              !.current_stage = 4,
                              !.bodies = <<>>,
                              !.out = [kind |-> "result", stage |-> 4,
                                       result |-> StageResult(TRUE, OutputFile(4),
                                                              tokens_used, None)]]
    /\ UNCHANGED notArtifacts

\* WriteStage.execute, lines 41-64: one pass of the loop, the first one after
\* run_stage(5) admits the stage and lines 29-39; call_llm returns the text generated by call gen + 1 with
\* reply.tokens_used, or raises
WriteSection(reply) ==
    /\ \/ art.pc = "write"
       \/ /\ art.pc = "idle"
          /\ art.runs < MaxRuns
          /\ can_run_stage([current_stage |-> art.current_stage], 5)
    /\ {"03_corrected.md", "04_plan.json"} \subseteq DOMAIN art.files
    /\ LET article_plan == art.files["04_plan.json"]
           i == art.i
           section == article_plan.sections[i + 1]
           content == [generated |-> art.gen + 1]
           prompt == build_section_prompt(section, i + 1, Len(article_plan.sections),
                                          art.files["03_corrected.md"], article_plan,
                                          art.written_sections)
       IN  /\ i < Len(article_plan.sections)
           /\ art.pc = "idle" => art.gen + Len(article_plan.sections) <= MaxGenerated
           /\ i >= MaxVaried => reply.ok /\ reply.tokens_used = 1
           /\ art' =
                IF reply.ok
                THEN [art EXCEPT
                        !.pc = "write", !.gen = @ + 1, !.prompt = prompt,
                        !.sections = Put(@, section_file(i + 1, section.title), content),
                        !.i = i + 1,
                        !.written_sections = Append(@, content),
                        !.total_tokens = @ + reply.tokens_used,
                        !.usages = Append(@, reply.tokens_used),
                        !.bodies = Put(@, i + 1, content),
                        !.out = [kind |-> "none"]]
                ELSE [art EXCEPT
                        !.pc = "idle", !.runs = @ + 1, !.prompt = prompt,
                        !.i = 0, !.written_sections = <<>>,
                        !.total_tokens = 0, !.usages = <<>>,
                        !.out = [kind |-> "raised", stage |-> 5,
                                 error |-> "generation failed"]]
    /\ UNCHANGED notArtifacts

\* WriteStage.execute, lines 66-71, after the last pass of the loop
WriteReturn ==
    /\ art.pc = "write"
    /\ art.i = Len(art.files["04_plan.json"].sections)
    /\ art' = [art EXCEPT
                 !.pc = "idle", !.runs = @ + 1, !.current_stage = 5,
                 !.i = 0, !.written_sections = <<>>,
                 !.total_tokens = 0, !.usages = <<>>,
                 !.out = [kind |-> "result", stage |-> 5,
                          result |-> StageResult(TRUE, OutputFile(5),
                                                 art.total_tokens, None)]]
    /\ UNCHANGED notArtifacts

\* run_stage(6) admits the stage and MergeStage.execute runs, lines 28-68
Merge ==
    /\ art.pc = "idle"
    /\ art.runs < MaxRuns
    /\ can_run_stage([current_stage |-> art.current_stage], 6)
    /\ Has(art.files, "04_plan.json")
    /\ \E section_files \in {sorted(DOMAIN art.sections)} :
         LET article_plan == art.files["04_plan.json"]
             parts == <<[h1 |-> article_plan.title]>>
                         \o (IF Has(article_plan, "subtitle")
                             THEN <<[em |-> article_plan.subtitle]>> ELSE <<>>)
                         \o [k \in 1..(2 * Len(article_plan.sections)) |->
                               IF k % 2 = 1
                               THEN [h2 |-> article_plan.sections[(k + 1) \div 2].title]
                               ELSE art.sections[section_files[k \div 2]]]
         IN  art' =
               IF Len(section_files) # Len(article_plan.sections)
               THEN [art EXCEPT !.runs = @ + 1,
                                !.out = [kind |-> "result", stage |-> 6,
                                         result |-> StageResult(FALSE, None, 0,
                                                       "Section count mismatch")]]
               ELSE [art EXCEPT !.runs = @ + 1,
                                !.files = Put(@, "06_merged.md", parts),
                                !.current_stage = 6,
                                !.out = [kind |-> "result", stage |-> 6,
                                         result |-> StageResult(TRUE, OutputFile(6),
                                                                0, None)]]
    /\ UNCHANGED notArtifacts

ArticleNext ==
    \/ \E response \in Responses, tokens_used \in 0..MaxUsage : Plan(response, tokens_used)
    \/ \E reply \in {[ok |-> FALSE]}
                      \cup {[ok |-> TRUE, tokens_used |-> u] : u \in 1..(MaxUsage + 1)} :
          WriteSection(reply)
    \/ WriteReturn
    \/ Merge

SpecArticle == StoreInit /\ [][ArticleNext]_vars

(***************************************************************************)
(* The orchestrator and its projects directory: create_project,            *)
(* load_project and list_projects of Pipeline, with the StateManager of    *)
(* the current project.  A call is one action; its value or its exception  *)
(* is in ret together with the call that was made.                         *)
(***************************************************************************)
\* StateManager.load() of a state.json: None when there is no file or its
\* text does not parse
load_file(state_file) ==
    IF state_file.exists /\ Parses(state_file.text) THEN Parse(state_file.text)
    ELSE NoState

\* save() of a state at time now: updated_at is stamped
saved(state, now) == [state EXCEPT !.updated_at = datetime_now(now)]

\* a directory holding state.json with the saved state
Directory(state) == [exists |-> TRUE, state_file |-> File(Serialize(state))]

\* create_new(project_name, project_config) at time now followed by its save()
created_state(project_name, now) ==
    saved(ProjectHeader(project_name, Config, datetime_now(now))
            @@ [pipeline |-> create_new,
                materials |-> [selected |-> <<>>, generated |-> <<>>],
                statistics |-> NewStatistics],
          now + 1)

\* run_stage(1, input_file=input_file) skipped
load_stage_skipped(state, input_file, fault, now) == state

\* run_stage(1, input_file=input_file) on the state of the current project:
\* run() of LoadStage marks the stage in_progress, execute() copies and
\* reads the input file and records it, or raises fault, and run() marks
\* the stage completed or error; every update is followed by save()
load_stage_run(state, input_file, fault, now) ==
    LET key == stage_key(1, StageName(1))
        started == update_stage(state.pipeline, key, "in_progress", EmptyDict, now)
        executed == Tick(state.pipeline, key, "in_progress", now)
    IN  IF fault = None
        THEN saved([state EXCEPT
                      !.input = LoadedInput(input_file),
                      !.pipeline = update_stage(started, key, "completed",
                                                [output_file |-> OutputFile(1),
                                                 tokens_used |-> 0], executed)],
                   Tick(started, key, "completed", executed))
        ELSE saved([state EXCEPT
                      !.pipeline = update_stage(started, key, "error",
                                                [error_message |-> fault], executed)],
                   Tick(started, key, "error", executed))

\* the call whose outcome ret holds
Call(name, project_name, input_file) ==
    [name |-> name, project_name |-> project_name, input_file |-> input_file]

\* the clock after the last save() of a state
After(state) == 2 * state.updated_at.s + (IF state.updated_at.us = 0 THEN 0 ELSE 1)

\* create_project(project_name, input_file) with GEMINI_API_KEY being api_key
\* and LoadStage.execute meeting fault
CreateProject(project_name, input_file, api_key, fault) ==
    /\ pc = "idle"
    /\ clock < MaxClock
    /\ pc' = "returned"
    /\ LET call == Call("create_project", project_name, input_file)
           new_state == created_state(project_name, clock)
           state == load_file(File(Serialize(new_state))) IN
        IF orchestrator.projects_dir[project_name].exists
        THEN /\ ret' = [kind |-> "raised", call |-> call,
                        error |-> "Project already exists: " \o project_name]
             /\ UNCHANGED <<orchestrator, clock>>
        ELSE IF state = NoState
        THEN /\ ret' = [kind |-> "raised", call |-> call,
                        error |-> "Invalid project state in " \o project_name]
             /\ orchestrator' =
                   [orchestrator EXCEPT !.projects_dir[project_name] = Directory(new_state),
                                        !.project_dir = project_name,
                                        !.state = NoState]
             /\ clock' = After(new_state) + 1
        ELSE IF api_key = None
        THEN /\ ret' = [kind |-> "raised", call |-> call,
                        error |-> "GEMINI_API_KEY environment variable not set"]
             /\ orchestrator' =
                   [orchestrator EXCEPT !.projects_dir[project_name] = Directory(new_state),
                                        !.project_dir = project_name,
                                        !.state = state]
             /\ clock' = After(new_state) + 1
        ELSE \E loaded \in {load_stage_run(state, input_file, fault, clock + 2)} :
             /\ ret' = [kind |-> "created", call |-> call, project_dir |-> project_name]
             /\ orchestrator' =
                   [orchestrator EXCEPT !.projects_dir[project_name] = Directory(loaded),
                                        !.project_dir = project_name,
                                        !.state = loaded]
             /\ clock' = After(loaded)
    /\ UNCHANGED <<project, pipeline, materials, statistics, disk, pipelineOnly,
                   gw, pm, art>>

\* the process stops inside create_project, after mkdir (line 70) when
\* nothing is opened, else after write_text of the first save() has written
\* the first written members of state.json; the next process constructs its
\* Pipeline
CreateProjectStopped(project_name, opened, written) ==
    /\ pc = "idle"
    /\ clock < MaxClock
    /\ ~orchestrator.projects_dir[project_name].exists
    /\ LET text == Serialize(created_state(project_name, clock)) IN
        /\ written < Len(text)
        /\ orchestrator' =
              [NoOrchestrator EXCEPT
                 !.projects_dir =
                    [orchestrator.projects_dir EXCEPT
                       ![project_name] =
                          [exists |-> TRUE,
                           state_file |-> IF opened THEN File(SubSeq(text, 1, written))
                                          ELSE NoFile]]]
    /\ clock' = clock + 2
    /\ ret' = [kind |-> "none"]
    /\ UNCHANGED <<project, pipeline, materials, statistics, disk, pc, pipelineOnly,
                   gw, pm, art>>

\* load_project(project_dir) with GEMINI_API_KEY being api_key
LoadProject(project_name, api_key) ==
    /\ pc = "idle"
    /\ pc' = "returned"
    /\ LET call == Call("load_project", project_name, None)
           directory == orchestrator.projects_dir[project_name]
           state == load_file(directory.state_file) IN
        IF ~directory.exists
        THEN /\ ret' = [kind |-> "raised", call |-> call,
                        error |-> "Project not found: " \o project_name]
             /\ UNCHANGED orchestrator
        ELSE /\ orchestrator' = [orchestrator EXCEPT !.project_dir = project_name,
                                                     !.state = state]
             /\ ret' = IF state = NoState
                       THEN [kind |-> "raised", call |-> call,
                             error |-> "Invalid project state in " \o project_name]
                       ELSE IF api_key = None
                       THEN [kind |-> "raised", call |-> call,
                             error |-> "GEMINI_API_KEY environment variable not set"]
                       ELSE [kind |-> "loaded", call |-> call]
    /\ UNCHANGED <<project, pipeline, materials, statistics, clock, disk,
                   pipelineOnly, gw, pm, art>>

\* state_manager.set(path, value) on the current project
SetValue(path, value) ==
    /\ pc = "idle"
    /\ clock < MaxClock
    /\ orchestrator.state # NoState
    /\ LET state == saved(set(orchestrator.state, path, value), clock) IN
        orchestrator' =
           [orchestrator EXCEPT !.state = state,
                                !.projects_dir[orchestrator.project_dir] = Directory(state)]
    /\ clock' = clock + 1
    /\ ret' = [kind |-> "none"]
    /\ UNCHANGED <<project, pipeline, materials, statistics, disk, pc, pipelineOnly,
                   gw, pm, art>>

\* the orders in which iterdir() can list the projects directory
Orders ==
    {order \in [1..Cardinality(Projects) -> Projects] :
        \A i, j \in DOMAIN order : order[i] = order[j] => i = j}

\* list_projects, lines 262-268: the entry of a state
project_info(project_name, state) ==
    [name |-> state.project_name, path |-> project_name,
     created |-> isoformat(state.created_at),
     updated |-> isoformat(state.updated_at),
     current_stage |-> state.pipeline.current_stage]

\* list_projects, lines 250-271: is an entry appended for the directory; the
\* subscript pipeline["current_stage"] raises KeyError inside the try
Listed(directory) ==
    /\ directory.exists
    /\ directory.state_file.exists
    /\ load_file(directory.state_file) # NoState
    /\ Has(load_file(directory.state_file).pipeline, "current_stage")

RECURSIVE list_entries(_, _)
\* the loop of list_projects over the directories in the order of iterdir()
list_entries(projects_dir, order) ==
    IF order = <<>> THEN <<>>
    ELSE IF Listed(projects_dir[Head(order)])
         THEN <<project_info(Head(order), load_file(projects_dir[Head(order)].state_file))>>
                 \o list_entries(projects_dir, Tail(order))
         ELSE list_entries(projects_dir, Tail(order))

\* list_projects() with iterdir() listing the directories in this order
ListProjects(order) ==
    /\ pc = "idle"
    /\ pc' = "returned"
    /\ ret' = [kind |-> "projects", call |-> Call("list_projects", None, None),
               projects |-> list_entries(orchestrator.projects_dir, order)]
    /\ UNCHANGED <<project, pipeline, materials, statistics, clock, disk,
                   pipelineOnly, aside>>

ProjectsNext ==
    \/ \E project_name \in Projects, input_file \in {"interview.txt", "notes.md"},
          api_key \in {None, "key"}, fault \in {None, "No such file or directory"} :
          CreateProject(project_name, input_file, api_key, fault)
    \/ \E project_name \in Projects, opened \in BOOLEAN :
          \E written \in IF opened THEN {0, Len(Fields) \div 2} ELSE {0} :
             CreateProjectStopped(project_name, opened, written)
    \/ \E project_name \in Projects, api_key \in {None, "key"} :
          LoadProject(project_name, api_key)
    \/ SetValue(<<"pipeline">>, EmptyDict)
    \/ \E order \in Orders : ListProjects(order)
    \/ Continue

SpecProjects == StoreInit /\ [][ProjectsNext]_vars

(***************************************************************************)
(* Properties.                                                             *)
(***************************************************************************)
StatusOf(k) == get_stage_status(pipeline, SeededKey(k))

\* the result run_stage handed to its caller last
LastResult ==
    IF ret.kind = "result" THEN ret.result ELSE ret.results[Len(ret.results)]

\* C1: run_stage(n), n in 2..10, runs stage code only if every stage 1..n-1
\* has status completed in the project state.
C1_AdmittedOnlyAfterCompletedStages ==
    (pc = "execute" /\ cur.stage_id >= 2)
        => \A k \in 1..(cur.stage_id - 1) : StatusOf(k) = "completed"

\* C2: current_stage never decreases, and it changes to N only in an update
\* that sets the record of stage N to completed.
C2_CurrentStageNeverDecreases ==
    [][/\ pipeline'.current_stage >= pipeline.current_stage
       /\ pipeline'.current_stage # pipeline.current_stage
            => \E key \in DOMAIN pipeline'.stages :
                  /\ ParseInt(key[1]) = pipeline'.current_stage
                  /\ pipeline'.stages[key].status = "completed"
                  /\ ~(Has(pipeline.stages, key)
                       /\ pipeline.stages[key] = pipeline'.stages[key])]_vars

HighestCompleted ==
    LET done == {k \in 1..NumStages : StatusOf(k) = "completed"}
    IN  IF done = {} THEN 0 ELSE CHOOSE k \in done : \A j \in done : j <= k

\* C3: between operations current_stage is the highest stage number whose
\* seeded record has status completed, and 0 when there is none.
C3_CurrentStageIsHighestCompleted ==
    pc = "idle" => pipeline.current_stage = HighestCompleted

\* C4: when execute() raised, run() has returned a failed result carrying the
\* message and the record marked in_progress at the start of the run has
\* status error and the message.
C4_RaiseMarksOwnRecordError ==
    (pc = "returned" /\ cur.how = "raised")
        => /\ ret.kind \in {"result", "results"}
           /\ ~LastResult.success
           /\ LastResult.error = cur.exc
           /\ pipeline.stages[cur.start_key].status = "error"
           /\ Has(pipeline.stages[cur.start_key], "error_message")
           /\ pipeline.stages[cur.start_key].error_message = cur.exc

\* C5: when run() has returned a failed result that execute() returned, the
\* record of the stage has status error and an error message; and no record
\* has status in_progress once run() has returned.
C5_FailedResultLeavesErrorRecord ==
    /\ (pc = "returned" /\ cur.how = "returned" /\ ~cur.result.success)
          => /\ pipeline.stages[cur.start_key].status = "error"
             /\ Has(pipeline.stages[cur.start_key], "error_message")
    /\ pc \in {"returned", "idle"}
          => \A key \in DOMAIN pipeline.stages :
                pipeline.stages[key].status # "in_progress"

\* the result run_stage hands over in the step that ends run()
Handed ==
    IF ra.active THEN ra'.results[Len(ra'.results)] ELSE ret'.result

\* C6: the record of the running stage is in_progress while execute() runs;
\* when execute() returned a successful result, the step of run() that follows
\* leaves the record completed with the result's output_file and tokens_used,
\* sets current_stage to the stage number, adds exactly tokens_used to
\* total_tokens_used and returns the result unchanged.
C6_SuccessfulRunRecordsResult ==
    [][/\ pc' = "execute" => pipeline'.stages[cur'.start_key].status = "in_progress"
       /\ (pc = "finish" /\ cur.result.success)
            => /\ Has(pipeline'.stages, cur.start_key)
               /\ pipeline'.stages[cur.start_key].status = "completed"
               /\ pipeline'.stages[cur.start_key].output_file = cur.result.output_file
               /\ pipeline'.stages[cur.start_key].tokens_used = cur.result.tokens_used
               /\ pipeline'.current_stage = cur.stage_id
               /\ statistics'.total_tokens_used
                    = PyInt(statistics.total_tokens_used.int + cur.result.tokens_used)
               /\ Handed = cur.result]_vars

\* a second stage with generation has completed and its tokens were added
C6_Witness ==
    /\ pc = "returned"
    /\ cur.how = "returned"
    /\ cur.result.success
    /\ cur.result.tokens_used > 0
    /\ pipeline.stages[cur.start_key].status = "completed"
    /\ statistics.total_tokens_used.int > cur.result.tokens_used

\* C7: the keys of pipeline.stages are exactly the ten keys seeded by
\* create_new.
C7_StageKeysAreSeededKeys ==
    DOMAIN pipeline.stages = SeededKeys

\* C8: once started_at of a record has a value no step changes it, and once
\* completed_at has a value no step changes it.
C8_TimestampsSetOnce ==
    [][\A key \in DOMAIN pipeline.stages :
        \A field \in {"started_at", "completed_at"} :
            Has(pipeline.stages[key], field)
                => /\ Has(pipeline'.stages, key)
                   /\ Has(pipeline'.stages[key], field)
                   /\ pipeline'.stages[key][field] = pipeline.stages[key][field]]_vars

\* the step writes the record at key, and its status is now error or in_progress
BecomesErrorOrInProgress(key) ==
    /\ pipeline'.stages[key].status \in {"error", "in_progress"}
    /\ ~(Has(pipeline.stages, key) /\ pipeline.stages[key] = pipeline'.stages[key])

\* C9: a step that takes a stage record to error or in_progress leaves
\* current_stage, the statistics and every other stage record unchanged.
C9_ErrorTransitionFrame ==
    [][/\ \A key \in DOMAIN pipeline'.stages :
            BecomesErrorOrInProgress(key)
                => /\ pipeline'.current_stage = pipeline.current_stage
                   /\ statistics' = statistics
                   /\ \A k \in DOMAIN pipeline.stages \ {key} :
                         /\ Has(pipeline'.stages, k)
                         /\ pipeline'.stages[k] = pipeline.stages[k]
       /\ pc = "except"
            => /\ pipeline'.current_stage = pipeline.current_stage
               /\ statistics' = statistics
               /\ pipeline'.stages[stage_key(cur.stage_id, cur.stage_name)].status = "error"]_vars

\* a stage above stage 1 ended in error after tokens were accounted
C9_Witness ==
    /\ pc = "returned"
    /\ cur.how = "raised"
    /\ pipeline.stages[cur.start_key].status = "error"
    /\ pipeline.current_stage >= 1
    /\ pipeline.current_stage # cur.stage_id
    /\ statistics.total_tokens_used.int > 0

\* C10: the list run_all returns holds the results of the stages from,
\* from+1, ... in this order, every result but the last is a success, the loop
\* stopped early only after a failed result, and no record of a stage that was
\* not started has been written.
C10_RunAllStopsAtFirstFailure ==
    /\ ra.active => \A j \in 1..Len(ra.results) : ra.results[j].success
    /\ (pc = "returned" /\ ret.kind = "results" /\ ra.from > 0)
          => /\ ret.results = ra.results
             /\ Len(ra.results) >= 1
             /\ Len(ra.started) = Len(ra.results)
             /\ \A j \in 1..Len(ra.started) : ra.started[j] = ra.from + j - 1
             /\ \A j \in 1..(Len(ra.results) - 1) : ra.results[j].success
             /\ Len(ra.results) < ra.to - ra.from + 1
                    => ~ra.results[Len(ra.results)].success
             /\ \A key \in ra.touched :
                    ParseInt(key[1]) \in {ra.started[j] : j \in 1..Len(ra.started)}
    /\ (pc = "returned" /\ ret.kind = "results" /\ ra.from = 0)
          => ret.results = <<>>

\* run_all returned after a success and a failure with one stage of its range
\* not run
C10_Witness ==
    /\ pc = "returned"
    /\ ret.kind = "results"
    /\ Len(ret.results) = 2
    /\ ret.results[1].success
    /\ ~ret.results[2].success
    /\ ra.to = ra.from + 2

\* the stage whose run the step belongs to
RunningStage == IF pc \in {"idle", "run_all"} THEN cur'.stage_id ELSE cur.stage_id

\* the step ends a run of a stage with a failed result
RunFails == (pc = "finish" /\ ~cur.result.success) \/ pc = "except"

\* C11: no step of a run other than the one that records its success changes
\* current_stage or the completed status of another stage; when a run has
\* failed, run_stage of the same stage is admitted again as the state stands;
\* and a run whose execute() succeeds, a retry included, leaves the stage's
\* record completed and current_stage at its number.
C11_FailedStageIsResumable ==
    [][/\ ~(pc = "finish" /\ cur.result.success)
            => /\ pipeline'.current_stage = pipeline.current_stage
               /\ \A key \in DOMAIN pipeline.stages :
                     (pipeline.stages[key].status = "completed"
                        /\ ParseInt(key[1]) # RunningStage)
                         => pipeline'.stages[key].status = "completed"
       /\ RunFails => can_run_stage(pipeline', cur.stage_id)
       /\ (pc = "finish" /\ cur.result.success)
            => /\ pipeline'.stages[cur.start_key].status = "completed"
               /\ pipeline'.current_stage = cur.stage_id]_vars

\* a stage above stage 1 whose earlier run raised has been retried with
\* success, without any run of an earlier stage in between
C11_Witness ==
    /\ pc = "returned"
    /\ cur.how = "returned"
    /\ cur.result.success
    /\ cur.stage_id >= 2
    /\ ~cur.charged
    /\ Has(pipeline.stages[cur.start_key], "error_message")
    /\ pipeline.stages[cur.start_key].status = "completed"
    /\ pipeline.current_stage = cur.stage_id

\* a call of the store has returned and the store holds a state
StoreAtRest == pc \in {"idle", "returned"} /\ project # NoState

\* C12: whenever a call of the store (create_new, update_stage,
\* update_statistics, add_selected_material, add_generated_material, set, or a
\* stage's assignment followed by save) has returned, state.json holds
\* exactly the text of the ProjectState in memory.
C12_MutationsPersistBeforeReturning ==
    StoreAtRest => disk = File(Serialize(ProjectState))

\* three calls that change the state have returned
C12_Witness ==
    /\ pc = "idle"
    /\ project # NoState
    /\ clock >= MaxClock - 1
    /\ disk = File(Serialize(ProjectState))
    /\ materials.generated # <<>>
    /\ Has(project.input, "original_file")

\* C13: when the process has stopped, during save() or not, state.json is
\* a whole document that load() can parse, never an empty or cut text.
C13_SaveIsAtomic ==
    pc = "stopped" => (disk.exists /\ Parses(disk.text))

\* C14: load() by a store bound to the same directory, after a call that
\* saved has returned, yields a state equal in every field to the one in
\* memory.
C14_SaveLoadRoundTrip ==
    (pc = "returned" /\ ret.kind = "loaded" /\ project # NoState)
        => /\ ret.state # NoState
           /\ DOMAIN ret.state = DOMAIN ProjectState
           /\ \A f \in DOMAIN ProjectState : ret.state[f] = ProjectState[f]

\* a state with a stamp of half a second, an error record, a generated
\* material and a changed statistic has been loaded back
C14_Witness ==
    /\ pc = "returned"
    /\ ret.kind = "loaded"
    /\ ret.state # NoState
    /\ ret.state.updated_at.us # 0
    /\ ret.state.created_at # ret.state.updated_at
    /\ \E key \in DOMAIN ret.state.pipeline.stages :
          ret.state.pipeline.stages[key].status = "error"
    /\ ret.state.statistics # NewStatistics

C15_WitnessOverwrite ==
    /\ pc = "idle"
    /\ project # NoState
    /\ statistics.total_tokens_used = PyStr("n/a")

\* C17: can_run_stage(n) answers true exactly when n = 1 or the last
\* completed stage is at least n-1 (0 stands for it when no state is loaded),
\* so can_run_stage(1) is always true; and the call changes nothing.
C17_CanRunStageAnswer ==
    [][(pc = "idle" /\ ret'.kind = "can_run")
        => LET n == ret'.stage_num
               current_stage == IF pipeline = NoState THEN 0 ELSE pipeline.current_stage
           IN  /\ ret'.value <=> (n = 1 \/ current_stage >= n - 1)
               /\ n = 1 => ret'.value
               /\ UNCHANGED <<project, pipeline, materials, statistics, disk, clock>>]_vars

\* can_run_stage(1) has answered true with no state loaded
C17_Witness ==
    /\ pc = "returned"
    /\ ret.kind = "can_run"
    /\ ret.stage_num = 1
    /\ ret.value
    /\ project = NoState

\* can_run_stage has refused a stage while stage 1 is in error
C17_WitnessRefused ==
    /\ pc = "returned"
    /\ ret.kind = "can_run"
    /\ ~ret.value
    /\ project # NoState
    /\ pipeline.stages[SeededKey(1)].status = "error"

\* C16: no step of the pipeline lowers total_tokens_used, total_api_calls or
\* total_time_seconds.
C16_StatisticsNeverDecrease ==
    [][\A k \in {"total_tokens_used", "total_api_calls", "total_time_seconds"} :
          /\ Has(statistics', k)
          /\ statistics'[k].int >= statistics[k].int]_vars

\* three stages have added their tokens and calls
C16_Witness ==
    /\ pc = "idle"
    /\ statistics.total_api_calls.int >= 3
    /\ statistics.total_tokens_used.int >= statistics.total_api_calls.int

\* C18: a step in which run_stage raises the out-of-order error leaves the
\* stage records, current_stage, the statistics, the materials and state.json
\* unchanged and constructs no stage; the stage the error names is
\* current_stage + 1, and can_run_stage admits that stage.
C18_OutOfOrderChangesNothing ==
    [][(pc \in {"idle", "run_all"} /\ ret'.kind = "raised" /\ ret'.error = "OutOfOrder")
        => /\ UNCHANGED <<pipeline, statistics, materials, project, disk>>
           /\ cur' = NoStage
           /\ pc' = "returned"
           /\ ret'.first = pipeline.current_stage + 1
           /\ can_run_stage(pipeline', ret'.first)]_vars

\* run_stage has refused a stage after some stages completed
C18_Witness ==
    /\ pc = "returned"
    /\ ret.kind = "raised"
    /\ ret.error = "OutOfOrder"
    /\ pipeline.current_stage >= 2
    /\ ret.first = pipeline.current_stage + 1

\* the passes of the loop of generate() made in the call under way
Failed(j) == ~gw.attempts[j].ok

\* C19: generate makes at most max_retries attempts; it returns the answer of
\* the first attempt that succeeded and makes no attempt after it; it raises
\* only after max_retries failed attempts, and then the error of the last
\* one; and it has slept retry_delay times the attempt's number after every
\* failed attempt but the last.
C19_RetryPolicy ==
    LET n == Len(gw.attempts) IN
    /\ n <= max_retries
    /\ gw.pc = "attempt"
          => /\ n < max_retries
             /\ \A j \in 1..n : Failed(j)
             /\ gw.slept = [j \in 1..n |-> retry_delay * j]
    /\ (gw.pc = "returned" /\ gw.out.kind = "result")
          => /\ n >= 1
             /\ \A j \in 1..(n - 1) : Failed(j)
             /\ ~Failed(n)
             /\ gw.out.content = n
             /\ gw.slept = [j \in 1..(n - 1) |-> retry_delay * j]
    /\ (gw.pc = "returned" /\ gw.out.kind = "raised")
          => /\ n = max_retries
             /\ \A j \in 1..n : Failed(j)
             /\ gw.out.error = gw.attempts[n].error
             /\ gw.slept = [j \in 1..(n - 1) |-> retry_delay * j]

\* generate raised after three failed attempts whose errors differ
C19_Witness ==
    /\ gw.pc = "returned"
    /\ gw.out.kind = "raised"
    /\ Len(gw.attempts) = max_retries
    /\ gw.attempts[1].error # gw.attempts[max_retries].error
    /\ gw.slept = <<retry_delay, retry_delay + retry_delay>>

\* generate returned the answer of the third attempt
C19_WitnessThird ==
    /\ gw.pc = "returned"
    /\ gw.out.kind = "result"
    /\ Len(gw.attempts) = max_retries

\* C20: the token count process() reports for a call that succeeded is the
\* usage the backend reported in that call, not the count an earlier call
\* left in the gateway; and a call that failed leaves last_token_count as it
\* was before the call.
C20_TokenCountOfSameCall ==
    LET n == Len(gw.attempts) IN
    /\ (gw.pc = "returned" /\ gw.out.kind = "result")
          => IF gw.attempts[n].usage # NoUsage
             THEN gw.out.tokens_used = gw.attempts[n].usage
             ELSE ~(gw.before # 0 /\ gw.out.tokens_used = gw.before)
    /\ (gw.pc = "returned" /\ gw.out.kind = "raised")
          => gw.last_token_count = gw.before

\* what a call of get_prompt_info handed back: the content and the source, or
\* the not-found error
Answer(out) ==
    IF out.kind = "info"
    THEN [kind |-> "info", content |-> out.info.content, source |-> out.info.source]
    ELSE [kind |-> "not-found"]

\* the three-tier resolution of the stage against the override files and the
\* active project of manager m: project, then installation, then default
ThreeTier(m, stage) ==
    IF m.project_dir # None /\ Has(m.prompts[m.project_dir], stage)
    THEN [kind |-> "info", content |-> m.prompts[m.project_dir][stage], source |-> "project"]
    ELSE IF Has(m.prompts_dir, stage)
    THEN [kind |-> "info", content |-> m.prompts_dir[stage], source |-> "custom"]
    ELSE IF Has(DEFAULT_PROMPTS, stage)
    THEN [kind |-> "info", content |-> DEFAULT_PROMPTS[stage], source |-> "default"]
    ELSE [kind |-> "not-found"]

\* the answer the next get_prompt_info(stage) on manager m gives
NextAnswer(m, stage) == Answer(get_prompt_info(m, stage).out)

\* the step is a call of get_prompt_info
Resolves == pm'.out.kind \in {"info", "raised"}

\* a call of get_prompt_info answers with the project
\* override when there is one, else with the installation-wide override, else
\* with the default, else with not-found.
AnswersFollowPrecedence ==
    [][Resolves => Answer(pm'.out) = ThreeTier(pm, pm'.out.stage)]_vars

\* C21: resolution follows project > installation > default; and when a step
\* deletes the project override of a stage for which an installation-wide
\* override exists, the next resolution answers with the installation-wide
\* text.
C21_ProjectThenInstallationThenDefault ==
    [][/\ Resolves => Answer(pm'.out) = ThreeTier(pm, pm'.out.stage)
       /\ \A stage \in PromptStages :
            (/\ pm'.project_dir = pm.project_dir
             /\ HasProjectPrompt(pm, stage)
             /\ ~HasProjectPrompt(pm', stage)
             /\ Has(pm.prompts_dir, stage))
                => NextAnswer(pm', stage)
                      = [kind |-> "info", content |-> pm.prompts_dir[stage],
                         source |-> "custom"]]_vars

\* C22: in every state reached by calls of the manager, get_prompt_info of
\* any stage answers with the content and source of the three-tier resolution
\* against the files and the project as they are now.
C22_CacheCoherence ==
    \A stage \in PromptStages \cup DOMAIN pm.cache :
        NextAnswer(pm, stage) = ThreeTier(pm, stage)

\* a prompt cached under one project is held while another project has an
\* override of the same stage and the installation-wide text was replaced
C22_Witness ==
    /\ pm.project_dir = "p2"
    /\ Has(pm.cache, "04_plan")
    /\ pm.cache["04_plan"].source = "custom"
    /\ pm.cache["04_plan"].content = <<"B">>
    /\ Has(pm.prompts["p1"], "04_plan")
    /\ Has(pm.cache, "10_generate")
    /\ pm.cache["10_generate"].source = "project"

\* the step is a call of save_prompt
Saves == pm'.out.kind = "saved"

\* C23: save_prompt with project scope leaves a project override holding the
\* text, leaves the installation-wide override of the stage as it was, and
\* the next resolution answers with the text and source project; with
\* installation scope it writes the installation-wide override and no
\* project override.
C23_SaveWritesRequestedScopeOnly ==
    [][Saves =>
        LET stage == pm'.out.stage
            content == pm'.out.content
        IN  /\ pm'.project_dir = pm.project_dir
            /\ pm'.out.to_project
                 => /\ HasProjectPrompt(pm', stage)
                    /\ pm'.prompts[pm'.project_dir][stage] = content
                    /\ pm'.prompts_dir = pm.prompts_dir
                    /\ NextAnswer(pm', stage)
                          = [kind |-> "info", content |-> content, source |-> "project"]
            /\ ~pm'.out.to_project
                 => /\ Has(pm'.prompts_dir, stage)
                    /\ pm'.prompts_dir[stage] = content
                    /\ pm'.prompts_dir = Put(pm.prompts_dir, stage, content)
                    /\ pm'.prompts = pm.prompts]_vars

\* the step is a call of reset_to_default
Resets == pm'.out.kind = "reset"

\* C24: reset_to_default(stage) leaves no override of the stage in the active
\* project or installation-wide, returns true exactly when one of the two
\* existed, leaves the overrides of the other stages and projects as they
\* were, and the next resolution of the stage answers with the default, or
\* with not-found when the stage has none.
C24_ResetRemovesBothScopes ==
    [][Resets =>
        LET stage == pm'.out.stage IN
        /\ pm'.project_dir = pm.project_dir
        /\ ~HasProjectPrompt(pm', stage)
        /\ ~Has(pm'.prompts_dir, stage)
        /\ pm'.out.deleted <=> (HasProjectPrompt(pm, stage) \/ Has(pm.prompts_dir, stage))
        /\ pm'.prompts_dir = Remove(pm.prompts_dir, stage)
        /\ \A d \in Projects :
              IF d = pm.project_dir
              THEN pm'.prompts[d] = Remove(pm.prompts[d], stage)
              ELSE pm'.prompts[d] = pm.prompts[d]
        /\ NextAnswer(pm', stage)
              = IF Has(DEFAULT_PROMPTS, stage)
                THEN [kind |-> "info", content |-> DEFAULT_PROMPTS[stage],
                      source |-> "default"]
                ELSE [kind |-> "not-found"]]_vars

\* reset_to_default of a stage returned true under a project while the other
\* stage keeps its overrides at both scopes
C24_Witness ==
    /\ pm.out.kind = "reset"
    /\ pm.out.stage = "04_plan"
    /\ pm.out.deleted
    /\ pm.project_dir = "p1"
    /\ Has(pm.prompts["p1"], "10_generate")
    /\ Has(pm.prompts_dir, "10_generate")
    /\ Has(pm.prompts["p2"], "04_plan")

\* reset_to_default returned false: the stage had no override
C24_WitnessNothingDeleted ==
    /\ pm.out.kind = "reset"
    /\ ~pm.out.deleted
    /\ pm.out.stage = "10_generate"
    /\ pm.project_dir = "p1"
    /\ Has(pm.prompts_dir, "04_plan")

\* the step is an execute() of stage 3 that returned
Compared == art'.out.kind = "result" /\ art'.out.stage = 3

\* the places of the separator in a text
Places(text) == {k \in 1..Len(text) : text[k] = Separator}

\* is trimmed the text without the white space at its two ends
IsTrimmed(trimmed, text) ==
    \E a \in 1..(Len(text) + 1), b \in 0..Len(text) :
        /\ trimmed = SubSeq(text, a, b)
        /\ \A k \in 1..Len(text) : (k < a \/ k > b) => text[k] = " "
        /\ trimmed # <<>> => (trimmed[1] # " " /\ trimmed[Len(trimmed)] # " ")

\* C30: after execute() of stage 3, when the response holds the separator
\* the corrected artifact is the text before its first occurrence, trimmed;
\* when it holds none the corrected artifact is the whole response; in both
\* cases the audit artifact is the whole response, and no other file changed.
C30_SeparatorSplitting ==
    [][Compared =>
        LET content == art'.out.content
            corrected == art'.files["03_corrected.md"]
        IN  /\ art'.files["03_corrected_with_report.md"] = content
            /\ IF Places(content) # {}
               THEN LET first == CHOOSE k \in Places(content) :
                                    \A j \in Places(content) : k <= j
                    IN  IsTrimmed(corrected, SubSeq(content, 1, first - 1))
               ELSE corrected = content
            /\ \A f \in DOMAIN art.files \ {"03_corrected.md", "03_corrected_with_report.md"} :
                  Has(art'.files, f) /\ art'.files[f] = art.files[f]]_vars

\* a response with white space around the text and two separators was split
C30_Witness ==
    /\ art.out.kind = "result"
    /\ art.out.stage = 3
    /\ art.out.content = <<" ", "x", Separator, Separator>>
    /\ art.files["03_corrected.md"] = <<"x">>
    /\ art.files["03_corrected_with_report.md"] = art.out.content

\* a response without separator was kept whole, white space included
C30_WitnessNoSeparator ==
    /\ art.out.kind = "result"
    /\ art.out.stage = 3
    /\ art.out.content = <<" ", "x", " ">>
    /\ art.files["03_corrected.md"] = art.out.content

\* the structure a plan must have: a title, sections, at least one, and
\* each section with a title and key points
HasPlanStructure(v) ==
    /\ {"title", "sections"} \subseteq DOMAIN v
    /\ v.sections # <<>>
    /\ \A k \in DOMAIN v.sections : {"title", "key_points"} \subseteq DOMAIN v.sections[k]

\* execute() returned the failed result of an invalid structure and wrote no
\* file
InvalidStructure ==
    /\ art'.out.kind = "result"
    /\ ~art'.out.result.success
    /\ art'.out.result.error = "Invalid plan structure returned by LLM"
    /\ art'.files = art.files

\* the step is an execute() of stage 4 on a response that parses to a plan
\* without the structure
PlannedUnstructured ==
    \E response \in Responses, tokens_used \in 0..MaxUsage :
        /\ Plan(response, tokens_used)
        /\ extract_json(response).ok
        /\ ~HasPlanStructure(extract_json(response).value)

\* the step is an execute() of stage 4 on a response whose extracted text
\* does not parse
PlannedUnparsable ==
    \E response \in Responses, tokens_used \in 0..MaxUsage :
        Plan(response, tokens_used) /\ ~extract_json(response).ok

\* a response that parses to a plan without the structure makes execute()
\* return the failed result
UnstructuredPlanIsInvalidStructure ==
    [][PlannedUnstructured => InvalidStructure]_vars

\* C28: a response of stage 4 whose extracted text does not parse, or parses
\* to a plan without the structure, makes execute() return a failed result
\* with the invalid-structure message, and no plan artifact is written.
C28_InvalidResponseIsFailedResult ==
    [][(PlannedUnparsable \/ PlannedUnstructured) => InvalidStructure]_vars

\* a plan with a title, at least one section, and in every section a
\* non-empty title and a non-empty list of key points
ArticlePlan(v) ==
    /\ HasPlanStructure(v)
    /\ \A k \in DOMAIN v.sections :
          v.sections[k].title # <<>> /\ v.sections[k].key_points # <<>>

\* C29: the plan in 04_plan.json, which stages 5 and 6 read, has a title and
\* at least one section, and every section has a non-empty title and a
\* non-empty list of key points.
C29_PersistedPlanIsArticlePlan ==
    Has(art.files, "04_plan.json") => ArticlePlan(art.files["04_plan.json"])

\* the step is a generation call of stage 5 that returned a text
Generated == art'.gen = art.gen + 1

\* the step is a generation call of stage 5 that raised
GenerationFailed == art'.out.kind = "raised" /\ art'.out.stage = 5

\* the step is the return of execute() of stage 5
Written == art'.out.kind = "result" /\ art'.out.stage = 5

\* the section the call of this step is for: one more than the calls that
\* returned in this run of stage 5
SectionAsked == Len(art.usages) + 1

\* the text generated in this run for section j, when section_num is asked
\* next: the calls of a run follow one another
TextOf(j, section_num) == [generated |-> art.gen - (section_num - 1) + j]

\* C25: in a run of stage 5 the k-th generation call is for section k of the
\* plan, execute() returns after as many calls as the plan has sections, and
\* the prompt of the call for section k holds, for k = 1, the first-section
\* placeholder and, for k > 1, the texts generated in this run for the
\* sections 1..k-1 in order, each under its number, and no other text.
C25_ContextGrowth ==
    [][LET article == art.files["04_plan.json"]
           k == SectionAsked
       IN  /\ (Generated \/ GenerationFailed) =>
                 /\ k <= Len(article.sections)
                 /\ art'.prompt.section_num = k
                 /\ art'.prompt.title = article.sections[k].title
                 /\ art'.prompt.prev_text =
                       IF k = 1 THEN <<[text |-> "(first section)"]>>
                       ELSE [j \in 1..(k - 1) |->
                               [heading |-> j, text |-> TextOf(j, k)]]
                 /\ \A j \in DOMAIN art'.prompt.prev_text :
                       Has(art'.prompt.prev_text[j], "heading") =>
                           art'.prompt.prev_text[j].text.generated <= art.gen
           /\ Written => Len(art.usages) = Len(article.sections)]_vars

\* in a second run of stage 5 the call for section 2 has returned
C25_Witness ==
    /\ art.pc = "write"
    /\ art.prompt.section_num = 2
    /\ art.gen = 4
    /\ art.prompt.prev_text = <<[heading |-> 1, text |-> [generated |-> 3]]>>

\* the call for the last section of the longest plan has returned
C25_WitnessLongPlan ==
    /\ art.pc = "write"
    /\ art.prompt.section_num = LongPlan
    /\ Len(art.prompt.prev_text) = LongPlan - 1

RECURSIVE SumOf(_)
\* the sum of a list of numbers
SumOf(counts) == IF counts = <<>> THEN 0 ELSE Head(counts) + SumOf(Tail(counts))

\* C26: when a generation call of stage 5 returns, its text is in a file
\* with the texts of the sections before it; when the call for section k
\* raises, execute() raises, the stage is not completed, and the files of
\* the sections 1..k-1 of this run hold the generated texts; the result of a
\* run that succeeds carries the sum of the token counts of its calls.
C26_PersistBeforeNext ==
    [][/\ Generated =>
            /\ \E f \in DOMAIN art'.sections :
                  art'.sections[f] = [generated |-> art'.gen]
            /\ art'.usages = Append(art.usages, art'.usages[Len(art'.usages)])
       /\ GenerationFailed =>
            /\ art'.sections = art.sections
            /\ art'.pc = "idle" /\ art'.current_stage = art.current_stage
       /\ (Generated \/ GenerationFailed) =>
            \A j \in 1..(SectionAsked - 1) :
                \E f \in DOMAIN art'.sections :
                    art'.sections[f] = TextOf(j, SectionAsked)
       /\ Written =>
            /\ art'.out.result.success
            /\ art'.out.result.tokens_used = SumOf(art.usages)]_vars

\* the call for section 2 raised in a second run, after the call for section
\* 1 returned: the file of section 1 holds the text of this run
C26_Witness ==
    /\ art.out.kind = "raised"
    /\ art.out.stage = 5
    /\ art.prompt.section_num = 2
    /\ art.gen = 3
    /\ \E f \in DOMAIN art.sections : art.sections[f] = [generated |-> 3]

\* a run of two calls with different token counts succeeded
C26_WitnessTotal ==
    /\ art.out.kind = "result"
    /\ art.out.stage = 5
    /\ Len(art.files["04_plan.json"].sections) = 2
    /\ art.out.result.tokens_used = 3

\* the step is an execute() of stage 6 that returned
Merged == art'.out.kind = "result" /\ art'.out.stage = 6

\* the heading of every section of the plan, each followed by the text
\* generated last for that section
RECURSIVE InPlanOrder(_, _, _)
InPlanOrder(article, texts, from) ==
    IF from > Len(article.sections) THEN <<>>
    ELSE <<[h2 |-> article.sections[from].title], texts[from]>>
             \o InPlanOrder(article, texts, from + 1)

\* execute() of stage 6 fails on differing counts and writes nothing, and
\* on equal counts writes the document in plan order
MergesInPlanOrder ==
    LET article == art.files["04_plan.json"]
    IN  IF Cardinality(DOMAIN art.sections) # Len(article.sections)
        THEN /\ ~art'.out.result.success
             /\ art'.out.result.error = "Section count mismatch"
             /\ art'.files = art.files
        ELSE /\ art'.out.result.success
             /\ art'.files["06_merged.md"] =
                   <<[h1 |-> article.title]>>
                       \o (IF "subtitle" \in DOMAIN article
                           THEN <<[em |-> article.subtitle]>> ELSE <<>>)
                       \o InPlanOrder(article, art.bodies, 1)

\* C27: execute() of stage 6 returns a failed result with the count-mismatch
\* message and writes no file when the number of section files differs from
\* the number of sections of the plan; when they agree the merged document
\* is the title, the subtitle if the plan has one, and for every section of
\* the plan in plan order its heading and the text generated for it.
C27_MergeInPlanOrder == [][Merged => MergesInPlanOrder]_vars

\* the same for the plans of fewer than a hundred sections
MergeInPlanOrderUnderHundred ==
    [][(Merged /\ Len(art.files["04_plan.json"].sections) < 100)
          => MergesInPlanOrder]_vars

\* with the longest plan the merged document holds under the heading of
\* section 10 the text generated for section 100
MergedOutOfPlanOrder ==
    /\ art.out.kind = "result"
    /\ art.out.stage = 6
    /\ art.out.result.success
    /\ Len(art.files["04_plan.json"].sections) = LongPlan
    /\ art.files["06_merged.md"][1 + 2 * 10] = art.bodies[LongPlan]

\* a plan of two sections with two section files is merged in plan order
MergedTwoSections ==
    /\ art.out.kind = "result"
    /\ art.out.stage = 6
    /\ art.out.result.success
    /\ Len(art.files["04_plan.json"].sections) = 2
    /\ art.files["06_merged.md"] =
          <<[h1 |-> <<84>>], [em |-> <<115>>], [h2 |-> <<65, 32, 98>>], art.bodies[1],
            [h2 |-> <<1071>>], art.bodies[2]>>

\* the section files of an earlier plan make the counts differ
MergeMismatched ==
    /\ art.out.kind = "result"
    /\ art.out.stage = 6
    /\ ~art.out.result.success
    /\ Cardinality(DOMAIN art.sections) > Len(art.files["04_plan.json"].sections)

\* the step is execute() of stage 9 returning
Selected == pc = "execute" /\ cur.stage_id = 9 /\ pc' = "finish"

\* the five identifiers of the catalog
Catalog == {"tg_vk_post", "email_announce", "press_release", "cards", "business_media"}

\* the selection stage 9 is run with
Given ==
    IF "selected_materials" \in DOMAIN cur.kwargs
    THEN cur.kwargs.selected_materials
    ELSE <<"tg_vk_post", "email_announce", "press_release", "cards", "business_media">>

\* the identifiers of a list that are not in the catalog, in the order of
\* the list
NotInCatalog(ids) ==
    LET places == {k \in 1..Len(ids) : ids[k] \notin Catalog}
        place(j) == CHOOSE k \in places : Cardinality({h \in places : h < k}) = j - 1
    IN  [j \in 1..Cardinality(places) |-> ids[place(j)]]

\* C31: execute() of stage 9 run without a list selects the five catalog
\* identifiers; run with an identifier outside the catalog it returns a failed
\* result that names the invalid identifiers and leaves the materials and the
\* state document alone; otherwise it returns success with the given list
\* in materials.selected and in the state document.
C31_SelectionValidated ==
    [][Selected =>
         IF NotInCatalog(Given) # <<>>
         THEN /\ ~cur'.result.success
              /\ cur'.result.error =
                    "Invalid material types: " \o join(", ", NotInCatalog(Given))
              /\ materials' = materials
              /\ disk' = disk
         ELSE /\ cur'.result.success
              /\ materials'.selected = Given
              /\ materials'.generated = materials.generated
              /\ disk'.exists /\ Parses(disk'.text)
              /\ Parse(disk'.text).materials = materials']_vars

\* C31, the consequence: every identifier in materials.selected is in the
\* catalog.
SelectedAreCatalogEntries ==
    \A k \in 1..Len(materials.selected) : materials.selected[k] \in Catalog

\* stage 9 was run with two invalid identifiers around a valid one and named
\* the two
C31_Witness ==
    /\ pc = "finish"
    /\ cur.stage_id = 9
    /\ cur.kwargs = [selected_materials |-> <<"bogus", "cards", "nope">>]
    /\ cur.result.error = "Invalid material types: bogus, nope"
    /\ materials.selected = <<>>

\* stage 9 was run without a list and selected the whole catalog
C31_WitnessAll ==
    /\ pc = "finish"
    /\ cur.stage_id = 9
    /\ cur.kwargs = EmptyDict
    /\ cur.result.success
    /\ Len(materials.selected) = 5

\* execute() of stage 10 is running
Generating == pc = "execute" /\ cur.stage_id = 10

\* the step is a generation call of stage 10 that returned
MaterialReturned == Generating /\ cur'.i = cur.i + 1

\* the step is a generation call of stage 10 that raised
MaterialFailed ==
    Generating /\ pc' = "except" /\ cur'.stage_name # cur.stage_name

\* C32: execute() of stage 10 with an empty selection returns a failed
\* result without a generation call; otherwise its k-th call is for the k-th
\* selected material and is made under that material's prompt reference,
\* a call that returns appends the material's record and adds its token
\* count to the total, a call that raises leaves the records alone, and
\* execute() returns the total after one call for every selected material.
C32_OneCallPerSelectedMaterial ==
    [][Generating =>
        LET selected == materials.selected
            k == cur.i + 1
        IN  /\ selected = <<>> =>
                 /\ gw' = gw
                 /\ pc' = "finish" =>
                       ~cur'.result.success /\ cur'.result.error = "No materials selected"
            /\ gw' # gw => (MaterialReturned \/ MaterialFailed)
            /\ (MaterialReturned \/ MaterialFailed) =>
                 /\ k <= Len(selected)
                 /\ gw'.stage_name = PromptFile(selected[k])
            /\ MaterialReturned =>
                 /\ gw'.returned = gw.returned + 1
                 /\ Len(materials'.generated) = Len(materials.generated) + 1
                 /\ SubSeq(materials'.generated, 1, Len(materials.generated))
                       = materials.generated
                 /\ materials'.generated[Len(materials'.generated)].id = selected[k]
                 /\ materials'.selected = selected
                 /\ Parse(disk'.text).materials = materials'
                 /\ cur'.total_tokens - cur.total_tokens = gw'.tokens - gw.tokens
            /\ MaterialFailed =>
                 /\ gw'.returned = gw.returned
                 /\ materials' = materials
                 /\ Parse(disk'.text).materials = materials
                 /\ cur'.stage_name = PromptFile(selected[k])
            /\ (pc' = "finish" /\ cur'.result.success) =>
                 /\ cur.i = Len(selected)
                 /\ cur'.result.tokens_used = cur.total_tokens
                 /\ gw' = gw
                 /\ \A j \in 1..Len(selected) :
                       materials.generated[Len(materials.generated) - Len(selected) + j].id
                           = selected[j]]_vars

\* the total of a run starts at zero
TotalStartsAtZero == (Generating /\ cur.i = 0) => cur.total_tokens = 0

\* stage 10 returned after five calls with one token each
C32_Witness ==
    /\ pc = "finish"
    /\ cur.stage_id = 10
    /\ cur.result.success
    /\ Len(materials.selected) = 5
    /\ cur.result.tokens_used = 5
    /\ gw.stage_name = <<"materials/business", "media">>

\* the call for the third material raised after two records were appended
C32_WitnessFailure ==
    /\ pc = "except"
    /\ cur.stage_id = 10
    /\ cur.i = 2
    /\ cur.stage_name = <<"materials/press", "release">>
    /\ Len(materials.generated) = 2

\* stage 10 returned the failed result of an empty selection
C32_WitnessEmpty ==
    /\ pc = "finish"
    /\ cur.stage_id = 10
    /\ cur.result.error = "No materials selected"

(***************************************************************************)
(* create_project and list_projects (SpecProjects).                        *)
(***************************************************************************)
\* this step is a call of create_project
CreateCall == pc = "idle" /\ Has(ret', "call") /\ ret'.call.name = "create_project"

\* the state that state.json of the project holds after the step
StateAfter(project_name) == load_file(orchestrator'.projects_dir[project_name].state_file)

\* C33: create_project raises the already-exists error and changes nothing
\* in the projects directory when the directory of the project exists;
\* otherwise the directory holds a state with the ten stage records, and
\* when create_project returns, stage 1 has been run on the given input
\* file on top of ten pending records and current_stage 0: the nine other
\* records are still pending, the record of stage 1 is started and is
\* completed with the input file recorded and current_stage 1, or in error
\* with current_stage 0
C33_CreateProject ==
    [][CreateCall =>
        LET project_name == ret'.call.project_name
            state == StateAfter(project_name)
            key == SeededKey(1)
        IN  IF orchestrator.projects_dir[project_name].exists
            THEN /\ ret'.kind = "raised"
                 /\ ret'.error = "Project already exists: " \o project_name
                 /\ orchestrator' = orchestrator
            ELSE /\ orchestrator'.projects_dir[project_name].exists
                 /\ state # NoState
                 /\ state.project_name = project_name
                 /\ DOMAIN state.pipeline.stages = SeededKeys
                 /\ Cardinality(SeededKeys) = 10
                 /\ \A k \in SeededKeys \ {key} :
                       state.pipeline.stages[k] = [status |-> "pending"]
                 /\ \A other \in Projects \ {project_name} :
                       orchestrator'.projects_dir[other] = orchestrator.projects_dir[other]
                 /\ ret'.kind = "created" =>
                       /\ ret'.project_dir = project_name
                       /\ Has(state.pipeline.stages[key], "started_at")
                       /\ \/ /\ state.pipeline.stages[key].status = "completed"
                             /\ state.pipeline.current_stage = 1
                             /\ state.input.original_file = ret'.call.input_file
                          \/ /\ state.pipeline.stages[key].status = "error"
                             /\ state.pipeline.current_stage = 0
                             /\ state.input = EmptyDict
                 /\ ret'.kind = "raised" => state.pipeline = create_new]_vars

\* create_project returned the directory of a project whose stage 1 is
\* completed
C33_Witness ==
    /\ pc = "returned"
    /\ ret.kind = "created"
    /\ ret.call.name = "create_project"
    /\ LET state == load_file(orchestrator.projects_dir[ret.project_dir].state_file) IN
        /\ state.pipeline.stages[SeededKey(1)].status = "completed"
        /\ state.input.original_file = "notes.md"

\* create_project raised for a directory that exists
C33_WitnessExists ==
    /\ pc = "returned"
    /\ ret.kind = "raised"
    /\ ret.call.name = "create_project"
    /\ ret.error = "Project already exists: p2"

\* this step is a call of list_projects
ListCall == pc = "idle" /\ Has(ret', "call") /\ ret'.call.name = "list_projects"

\* the entries of the returned list for the directory of a project
EntriesOf(project_name) ==
    {i \in DOMAIN ret'.projects : ret'.projects[i].path = project_name}

\* state.json of the directory loads: load() returns a state
Loads(directory) ==
    directory.exists /\ load_file(directory.state_file) # NoState

\* C34: list_projects returns one entry for exactly the project directories
\* whose state document loads
C34_ListsWhatLoads ==
    [][ListCall =>
        \A project_name \in Projects :
           Cardinality(EntriesOf(project_name))
              = IF Loads(orchestrator.projects_dir[project_name]) THEN 1 ELSE 0]_vars

\* the part of C34 that holds: list_projects returns a list; a directory
\* whose state document is missing or does not parse has no entry; a
\* directory whose document loads with current_stage in its pipeline has
\* one entry, built from its own document; the projects directory and the
\* current project are as before
ListingSkipsUnloadable ==
    [][ListCall =>
        /\ ret'.kind = "projects"
        /\ orchestrator' = orchestrator
        /\ \A project_name \in Projects :
              LET directory == orchestrator.projects_dir[project_name] IN
                 /\ ~Loads(directory) => EntriesOf(project_name) = {}
                 /\ Cardinality(EntriesOf(project_name)) <= 1
                 /\ (/\ Loads(directory)
                     /\ Has(load_file(directory.state_file).pipeline, "current_stage")) =>
                       \E i \in EntriesOf(project_name) :
                          ret'.projects[i]
                             = project_info(project_name, load_file(directory.state_file))]_vars

\* a listing of two directories, one with a truncated document, returned
\* the entry of the other
ListingSkippedOne ==
    /\ pc = "returned"
    /\ ret.kind = "projects"
    /\ Len(ret.projects) = 1
    /\ \E project_name \in Projects :
          /\ orchestrator.projects_dir[project_name].state_file.exists
          /\ ~Parses(orchestrator.projects_dir[project_name].state_file.text)

\* a listing returned no entry for a directory whose document loads
ListingOmittedLoadable ==
    /\ pc = "returned"
    /\ ret.kind = "projects"
    /\ \E project_name \in Projects :
          /\ Loads(orchestrator.projects_dir[project_name])
          /\ \A i \in DOMAIN ret.projects : ret.projects[i].path # project_name

\* create_project returned the directory: stage 1 is completed and
\* current_stage is 1
ReturnedMeansLoaded ==
    [][(CreateCall /\ ret'.kind = "created") =>
        LET state == StateAfter(ret'.call.project_name) IN
           /\ state.pipeline.stages[SeededKey(1)].status = "completed"
           /\ state.pipeline.current_stage = 1]_vars

\* create_project raised: the directory of the project is as it was before
\* the call
RaisedLeavesNothing ==
    [][(CreateCall /\ ret'.kind = "raised") =>
        orchestrator'.projects_dir = orchestrator.projects_dir]_vars

\* C39: create_project is all-or-nothing: a returned directory holds a
\* project whose stage 1 is completed with current_stage 1, and when it
\* raises or stage 1 fails no directory of the project is left
C39_AllOrNothing ==
    [][CreateCall =>
        LET project_name == ret'.call.project_name
            state == StateAfter(project_name)
            done == /\ ret'.kind = "created"
                    /\ state.pipeline.stages[SeededKey(1)].status = "completed"
                    /\ state.pipeline.current_stage = 1
        IN  \/ done
            \/ orchestrator'.projects_dir[project_name]
                  = orchestrator.projects_dir[project_name]]_vars

\* create_project raised for the missing credential and left the directory
CreatedWithoutCredential ==
    /\ pc = "returned"
    /\ ret.kind = "raised"
    /\ ret.error = "GEMINI_API_KEY environment variable not set"
    /\ ret.call.name = "create_project"
    /\ orchestrator.projects_dir[ret.call.project_name].exists

\* create_project returned the directory of a project whose stage 1 failed
CreatedWithFailedLoad ==
    /\ pc = "returned"
    /\ ret.kind = "created"
    /\ LET state == load_file(orchestrator.projects_dir[ret.project_dir].state_file) IN
        /\ state.pipeline.stages[SeededKey(1)].status = "error"
        /\ state.pipeline.current_stage = 0

(***************************************************************************)
(* The section directory after stage 5 (SpecArticle).                      *)
(***************************************************************************)
\* the step is execute() of stage 5 returning its successful result
WroteAll == art.pc = "write" /\ art'.out.kind = "result" /\ art'.out.stage = 5

\* the file of every section of the plan holds the text generated for it in
\* the run that returns in this step
SectionsOfPlanAreFresh ==
    LET article == art'.files["04_plan.json"]
        total == Len(article.sections)
    IN  \A i \in 1..total :
           /\ Has(art'.sections, section_file(i, article.sections[i].title))
           /\ art'.sections[section_file(i, article.sections[i].title)]
                 = [generated |-> art'.gen - total + i]

\* C35: after every successful run of stage 5 the section directory holds
\* exactly one file per section of the current plan, each with the text
\* generated in this run, so that stage 6 finds as many files as the plan
\* has sections
C35_SectionDirectoryMatchesPlan ==
    [][WroteAll =>
        /\ SectionsOfPlanAreFresh
        /\ Cardinality(DOMAIN art'.sections)
              = Len(art'.files["04_plan.json"].sections)]_vars

\* the part of C35 that holds: the files of the sections of the plan are the
\* ones written in this run
WrittenSectionsAreFresh == [][WroteAll => SectionsOfPlanAreFresh]_vars

\* stage 5 succeeded and the directory holds files that no section of the
\* current plan names
StaleSectionFiles ==
    /\ art.pc = "idle"
    /\ art.out.kind = "result"
    /\ art.out.stage = 5
    /\ art.out.result.success
    /\ LET article == art.files["04_plan.json"] IN
          \E f \in DOMAIN art.sections :
             \A i \in 1..Len(article.sections) :
                f # section_file(i, article.sections[i].title)

(***************************************************************************)
(* Statistics, stage records and materials over runs and re-runs (Spec).   *)
(***************************************************************************)
\* C36: between the runs of stages, total_api_calls is the number of
\* generation calls that returned and total_tokens_used is the sum of their
\* token counts
C36_StatisticsCountEveryCall ==
    pc = "idle" =>
       /\ statistics.total_api_calls = PyInt(gw.returned)
       /\ statistics.total_tokens_used = PyInt(gw.tokens)

\* the part of C36 that holds: the statistics never exceed the calls made
StatisticsNeverOvercount ==
    /\ statistics.total_api_calls.int <= gw.returned
    /\ statistics.total_tokens_used.int <= gw.tokens

\* stage 5 completed with calls that reported tokens, and fewer calls are
\* counted than were made: all tokens are counted, the calls are not
UncountedCallsOfWrite ==
    /\ pc = "idle"
    /\ usage > 0
    /\ pipeline.current_stage = 5
    /\ extra = 0
    /\ statistics.total_tokens_used = PyInt(gw.tokens)
    /\ statistics.total_api_calls.int < gw.returned

\* a run failed after a call of it had returned tokens that are not counted
UncountedTokensOfFailedRun ==
    /\ pc = "idle"
    /\ \E key \in DOMAIN pipeline.stages : pipeline.stages[key].status = "error"
    /\ statistics.total_tokens_used.int < gw.tokens

\* C37: a record with status completed has no error_message, and a record
\* with status error has no output_file and no tokens_used
C37_RecordFieldsAgreeWithStatus ==
    \A key \in DOMAIN pipeline.stages :
       LET record == pipeline.stages[key] IN
          /\ record.status = "completed" => ~Has(record, "error_message")
          /\ record.status = "error" =>
                ~Has(record, "output_file") /\ ~Has(record, "tokens_used")

\* a stage completed on the retry after a failed run and its record still
\* carries the error message
CompletedWithErrorMessage ==
    \E key \in DOMAIN pipeline.stages :
       /\ pipeline.stages[key].status = "completed"
       /\ Has(pipeline.stages[key], "error_message")

\* a completed stage failed when it was run again and its record still
\* carries the output file and the token count
ErrorWithOutputFile ==
    \E key \in DOMAIN pipeline.stages :
       /\ pipeline.stages[key].status = "error"
       /\ Has(pipeline.stages[key], "output_file")
       /\ Has(pipeline.stages[key], "tokens_used")

\* C38: materials.generated has at most one record for an identifier, and
\* every identifier in it is selected
C38_GeneratedMatchesSelected ==
    LET generated == materials.generated IN
       /\ \A i, j \in DOMAIN generated : generated[i].id = generated[j].id => i = j
       /\ \A i \in DOMAIN generated :
             \E j \in DOMAIN materials.selected : materials.selected[j] = generated[i].id

\* stage 10 was run twice and there are two records of one material
GeneratedTwice ==
    /\ pc = "idle"
    /\ \E i, j \in DOMAIN materials.generated :
          i < j /\ materials.generated[i].id = materials.generated[j].id

\* stage 9 was run again after stage 10 and a generated material is not
\* selected
GeneratedNotSelected ==
    /\ pc = "idle"
    /\ \E i \in DOMAIN materials.generated :
          \A j \in DOMAIN materials.selected :
             materials.selected[j] # materials.generated[i].id

\* C40: in the loop of run_all, after a stage of the range has succeeded,
\* the call of run_stage for the next stage does not raise: the stage is
\* admitted, constructed with the keyword arguments of run_all and started
C40_LaterStagesDoNotRaise ==
    [][pc = "run_all" => (pc' = "execute" /\ cur'.stage_id = ra.next)]_vars

\* the part of C40 that holds: the next stage of the range is admitted by
\* can_run_stage
LaterStagesAreAdmitted == pc = "run_all" => can_run_stage(pipeline, ra.next)

\* the same for run_all called without keyword arguments
LaterStagesStartWithoutKwargs ==
    [][(pc = "run_all" /\ ra.kwargs = EmptyDict)
          => (pc' = "execute" /\ cur'.stage_id = ra.next)]_vars

\* run_all is about to call run_stage for stage 2 with the input file of
\* stage 1 among the keyword arguments
RunAllPassesInputFileOn ==
    /\ pc = "run_all"
    /\ ra.next = 2
    /\ Has(ra.kwargs, "input_file")

====
